---- MODULE Spec2Model ----
(***************************************************************************)
(* A model of the hantu fuzzer: the mutation engine (MutationEngine and    *)
(* its mutators), the copy-on-write corpus, the corpus loader, the worker  *)
(* loop of the executor and the parallel Ni area mutator.                  *)
(*                                                                         *)
(* Indices are 0-based as in the source; At and Slice translate them to    *)
(* TLA+ sequences.  A value of the PRNG is an input: rand_range and the    *)
(* helpers built on it return the SET of values the call can yield.        *)
(***************************************************************************)
EXTENDS Integers, Sequences, FiniteSets, TLC

VARIABLES
    \* ---- MutationEngine (mutation_engine/src/lib.rs) ----
    corpus,            \* self.corpus: the engine's Vec<Vec<u8>>
    cfg,               \* mutators, mutation_passes, max_mutation_factor, printable,
                       \* user_token_dict, torc_token_dict, overflow_checks (build profile)
    test_case,         \* self.test_case: [data, size, data_ptr]
    pc,                \* where the caller of the engine is: idle, mutating, returned, panicked
    passes_done,       \* iterations of the loop of mutate() completed
    last,              \* the last mutator call: [mutator, res, pre] (pre: the test case before it)
    installed,         \* the data last installed with set_test_case, <<>> if none
    \* ---- Arc<Vec<Vec<u8>>> (copy-on-write corpus) ----
    arcs,              \* heap of Arc allocations: id -> [vec, strong]
    me_corpus,         \* the allocation the engine's corpus field points to
    holders,           \* other Arc clones: sequence of [arc, seen] (seen: the vector at clone time)
    added,             \* the entries given to add_to_corpus since set_corpus, in call order
    base,              \* the vector of the Arc given to the last set_corpus
    \* ---- load_corpus_from_disk ----
    disk,              \* the corpus path: [kind, files] (files: name -> [kind, bytes])
    loaded,            \* the vector load_corpus_from_disk returned, or "none"
    \* ---- worker loop (executor/src/lib.rs) ----
    wk,                \* per worker: its place in the loop, test case, and what its iteration did
    fstats,            \* FuzzerStats: [iterations, crashes]
    crash_dir,         \* the files of crash_dir: name -> bytes
    wlog,              \* the messages the workers printed: <<thr_id, kind>>
    mode,              \* "file" (an @@ argument: fuzz_from_file) or "stdin" (fuzz_from_stdin)
    \* ---- ni_area_parallel / ni_area_parallel_hybrid ----
    par,               \* [chunks, state, out, lock, variant]
    \* ---- TestCase consumers (test_case/src/lib.rs) ----
    harness,           \* the TestCase a fuzz harness consumes from: [data, size, data_ptr]
    call,              \* the latest consume_* call: what was asked, what it returned and read
    \* ---- Grammar (custom_mutators/grammar_mutator/src/lib.rs) ----
    grammar,           \* the Grammar: [tokens, start, built] (built: tokens before optimize)
    optimizer,         \* optimize(): [pc, idx, changed, nop_tokens, run, first]
    generator,         \* generate(): [pc, stack, out] (stack: frames [id, depth, at])
    \* ---- generators and Rng (prng/src) ----
    gens,              \* two generators of one kind: each [g, seed, origin, stream]
    rng,               \* an Rng and its latest rand_two or shuffle call: [g, op]
    \* ---- the main thread (main.rs) and the sequential ni_area (ni/src/lib.rs) ----
    monitor,           \* main's monitoring loop: [pc, max_iter, iterations, polls]
    area               \* ni_area: [data, stack, done, out, steps]

engine_vars == <<corpus, cfg, test_case, pc, passes_done, last, installed>>
arc_vars    == <<arcs, me_corpus, holders, added, base>>
load_vars   == <<disk, loaded>>
worker_vars == <<wk, fstats, crash_dir, wlog, mode>>
ni_vars     == <<par>>
tc_vars     == <<harness, call>>
grammar_vars == <<grammar, optimizer, generator>>
prng_vars   == <<gens, rng>>
run_vars    == <<monitor, area>>
lib_vars    == <<tc_vars, grammar_vars, prng_vars, run_vars>>
vars == <<engine_vars, arc_vars, load_vars, worker_vars, ni_vars, lib_vars>>

(***************************************************************************)
(* Bounds of the model.                                                    *)
(***************************************************************************)
\* A draw from a range yields one of its first MaxEnum values or its last one.
MaxEnum == 3
\* mutation_passes is drawn from 0..MaxPasses.
MaxPasses == 2

(***************************************************************************)
(* Sequences and bytes.                                                    *)
(***************************************************************************)
Min(a, b) == IF a < b THEN a ELSE b
Max(a, b) == IF a > b THEN a ELSE b

At(s, i) == s[i + 1]
\* s[a..b] of the source: the elements a, ..., b-1
Slice(s, a, b) == SubSeq(s, a + 1, b)
From(s, a) == SubSeq(s, a + 1, Len(s))
Upto(s, b) == SubSeq(s, 1, b)
SetAt(s, i, v) == [s EXCEPT ![i + 1] = v]
\* Vec::remove(idx)
Remove(s, i) == Upto(s, i) \o From(s, i + 1)
\* Vec::insert(idx, v)
Insert(s, i, v) == Upto(s, i) \o <<v>> \o From(s, i)
Repeat(v, n) == [k \in 1..n |-> v]
Reverse(s) == [k \in 1..Len(s) |-> s[Len(s) + 1 - k]]
\* replace s[i .. i+Len(w)] by w
Overwrite(s, i, w) == [k \in 1..Len(s) |->
                         IF k > i /\ k <= i + Len(w) THEN w[k - i] ELSE s[k]]
SeqSwap(s, i, j) == [s EXCEPT ![i + 1] = s[j + 1], ![j + 1] = s[i + 1]]

RECURSIVE XorBits(_, _, _)
XorBits(a, b, n) == IF n = 0 THEN 0
                    ELSE ((a + b) % 2) + 2 * XorBits(a \div 2, b \div 2, n - 1)
\* a ^ b on u8
Xor8(a, b) == XorBits(a, b, 8)
\* !a on u8
Not8(a) == 255 - a
RECURSIVE Pow2(_)
Pow2(n) == IF n = 0 THEN 1 ELSE 2 * Pow2(n - 1)
IsAsciiDigit(b) == b >= 48 /\ b <= 57

(***************************************************************************)
(* Unsigned integers wider than TLC's: little-endian byte vectors.         *)
(***************************************************************************)
\* n as w little-endian bytes (n a small natural)
RECURSIVE ToLE(_, _)
ToLE(n, w) == IF w = 0 THEN <<>> ELSE <<n % 256>> \o ToLE(n \div 256, w - 1)
\* v + k, wrapping at the width of v (k a small natural)
RECURSIVE AddLE(_, _)
AddLE(v, k) == IF Len(v) = 0 THEN <<>>
               ELSE <<(v[1] + k) % 256>> \o AddLE(Tail(v), (v[1] + k) \div 256)
NotLE(v) == [i \in 1..Len(v) |-> 255 - v[i]]
\* wrapping_neg
NegLE(v) == AddLE(NotLE(v), 1)
\* wrapping_sub(1)
DecLE(v) == NotLE(AddLE(NotLE(v), 1))
\* wrapping_shl(s), 0 < s < 8
ShlLE(v, s) == [i \in 1..Len(v) |->
                  ((v[i] * Pow2(s)) % 256) + (IF i > 1 THEN v[i - 1] \div Pow2(8 - s) ELSE 0)]
\* wrapping_shr(s), 0 < s < 8
ShrLE(v, s) == [i \in 1..Len(v) |->
                  (v[i] \div Pow2(s))
                  + (IF i < Len(v) THEN (v[i + 1] % Pow2(s)) * Pow2(8 - s) ELSE 0)]
\* zero-extend or truncate to w bytes
ResizeLE(v, w) == [i \in 1..w |-> IF i <= Len(v) THEN v[i] ELSE 0]
\* number of significant bytes (0 for the value 0)
RECURSIVE SigBytes(_)
SigBytes(v) == IF Len(v) = 0 THEN 0
               ELSE IF v[Len(v)] # 0 THEN Len(v)
               ELSE SigBytes(SubSeq(v, 1, Len(v) - 1))

(***************************************************************************)
(* The PRNG wrapper (prng/src/lib.rs): each helper yields the set of       *)
(* values it can return.                                                   *)
(***************************************************************************)
\* the values of lo..hi a draw is taken from
Sample(lo, hi) == (lo..Min(hi, lo + MaxEnum - 1)) \cup {hi}

\* Rng::rand_range(min, max), for max >= min (the caller panics otherwise)
rand_range(min, max) == IF min = max THEN {min} ELSE Sample(min, max - 1)
\* rand_range's assert!(max >= min)
RangePanics(min, max) == max < min

\* Rng::new: exponential is off, and nothing turns it on
exponential == FALSE
\* Rng::rand_exp
rand_exp(min, max) ==
    IF ~exponential THEN rand_range(min, max)
    ELSE rand_range(min, max) \cup UNION { rand_range(min, x) : x \in rand_range(min, max) }

\* Rng::rand_byte: rand() % 255
rand_byte == Sample(0, 254)
\* Rng::bool
rand_bool == BOOLEAN
\* Rng::pick, for a non-empty table
pick(entries) == { entries[i + 1] : i \in rand_range(0, Len(entries)) }

\* Rng::shuffle: the orders a slice can be left in
RECURSIVE FisherYates(_, _)
FisherYates(entries, i) ==
    IF i < 1 THEN {entries}
    ELSE UNION { FisherYates(SeqSwap(entries, i, j), i - 1) : j \in rand_range(0, i + 1) }
shuffle(entries) ==
    IF Len(entries) = 2 THEN {SeqSwap(entries, 0, 1)}
    ELSE FisherYates(entries, Len(entries) - 1)

(***************************************************************************)
(* The magic tables (magic/src/lib.rs), each value as little-endian bytes   *)
(* of the table's width.                                                   *)
(***************************************************************************)
MAGIC_8 == <<
    <<127>>, <<255>>, <<0>>, <<1>>, <<2>>, <<3>>, <<4>>, <<5>>, <<6>>, <<7>>, <<8>>, <<9>>,
    <<10>>, <<11>>, <<12>>, <<13>>, <<14>>, <<15>>, <<16>>, <<32>>, <<48>>, <<64>>, <<126>>,
    <<128>>, <<129>>, <<192>>, <<254>>
>>
MAGIC_16 == <<
    <<255,127>>, <<255,255>>, <<0,0>>, <<1,1>>, <<128,128>>, <<1,0>>, <<2,0>>, <<3,0>>, <<4,0>>,
    <<5,0>>, <<6,0>>, <<7,0>>, <<8,0>>, <<9,0>>, <<10,0>>, <<11,0>>, <<12,0>>, <<13,0>>,
    <<14,0>>, <<15,0>>, <<16,0>>, <<32,0>>, <<64,0>>, <<126,0>>, <<127,0>>, <<128,0>>,
    <<129,0>>, <<192,0>>, <<254,0>>, <<255,0>>, <<255,126>>, <<0,128>>, <<1,128>>, <<254,255>>,
    <<0,1>>, <<0,2>>, <<0,3>>, <<0,4>>, <<0,5>>, <<0,6>>, <<0,7>>, <<0,8>>, <<0,9>>, <<0,10>>,
    <<0,11>>, <<0,12>>, <<0,13>>, <<0,14>>, <<0,15>>, <<0,16>>, <<0,32>>, <<0,64>>, <<0,126>>,
    <<0,127>>, <<0,128>>, <<0,129>>, <<0,192>>, <<0,254>>, <<0,255>>, <<126,255>>, <<127,255>>,
    <<128,1>>, <<255,254>>
>>
MAGIC_32 == <<
    <<0,0,0,0>>, <<1,0,0,0>>, <<2,0,0,0>>, <<3,0,0,0>>, <<4,0,0,0>>, <<5,0,0,0>>, <<6,0,0,0>>,
    <<7,0,0,0>>, <<8,0,0,0>>, <<9,0,0,0>>, <<10,0,0,0>>, <<11,0,0,0>>, <<12,0,0,0>>,
    <<13,0,0,0>>, <<14,0,0,0>>, <<15,0,0,0>>, <<16,0,0,0>>, <<32,0,0,0>>, <<64,0,0,0>>,
    <<126,0,0,0>>, <<127,0,0,0>>, <<128,0,0,0>>, <<129,0,0,0>>, <<192,0,0,0>>, <<254,0,0,0>>,
    <<255,0,0,0>>, <<255,255,7,0>>, <<0,0,0,1>>, <<0,0,0,2>>, <<0,0,0,3>>, <<0,0,0,4>>,
    <<0,0,0,5>>, <<0,0,0,6>>, <<0,0,0,7>>, <<0,0,0,8>>, <<0,0,0,9>>, <<0,0,0,10>>, <<0,0,0,11>>,
    <<0,0,0,12>>, <<0,0,0,13>>, <<0,0,0,14>>, <<0,0,0,15>>, <<0,0,0,128>>, <<0,0,0,64>>,
    <<255,255,255,255>>, <<1,1,1,1>>, <<128,128,128,128>>, <<255,255,255,126>>, <<33,0,0,128>>,
    <<254,255,255,255>>, <<0,0,0,16>>, <<0,0,0,32>>, <<0,0,0,64>>, <<0,0,0,126>>, <<0,0,0,127>>,
    <<0,0,0,129>>, <<0,0,0,192>>, <<0,0,0,254>>, <<0,0,0,255>>, <<126,255,255,255>>,
    <<127,255,255,255>>, <<128,0,0,1>>, <<255,255,255,254>>
>>
MAGIC_64 == <<
    <<255,255,255,255,255,255,255,255>>, <<0,0,0,0,0,0,0,64>>, <<0,0,0,0,0,0,0,128>>,
    <<255,255,255,255,255,255,255,127>>, <<0,0,0,0,0,0,0,0>>, <<1,1,1,1,1,1,1,1>>,
    <<128,128,128,128,128,128,128,128>>, <<1,0,0,0,0,0,0,0>>, <<2,0,0,0,0,0,0,0>>,
    <<3,0,0,0,0,0,0,0>>, <<4,0,0,0,0,0,0,0>>, <<5,0,0,0,0,0,0,0>>, <<6,0,0,0,0,0,0,0>>,
    <<7,0,0,0,0,0,0,0>>, <<8,0,0,0,0,0,0,0>>, <<9,0,0,0,0,0,0,0>>, <<10,0,0,0,0,0,0,0>>,
    <<11,0,0,0,0,0,0,0>>, <<12,0,0,0,0,0,0,0>>, <<13,0,0,0,0,0,0,0>>, <<14,0,0,0,0,0,0,0>>,
    <<15,0,0,0,0,0,0,0>>, <<16,0,0,0,0,0,0,0>>, <<32,0,0,0,0,0,0,0>>, <<64,0,0,0,0,0,0,0>>,
    <<126,0,0,0,0,0,0,0>>, <<127,0,0,0,0,0,0,0>>, <<128,0,0,0,0,0,0,0>>, <<129,0,0,0,0,0,0,0>>,
    <<192,0,0,0,0,0,0,0>>, <<254,0,0,0,0,0,0,0>>, <<255,0,0,0,0,0,0,0>>, <<127,0,0,0,0,0,0,0>>,
    <<255,255,255,255,255,255,255,126>>, <<1,0,0,0,0,0,0,128>>,
    <<254,255,255,255,255,255,255,255>>, <<0,0,0,0,0,0,0,1>>, <<0,0,0,0,0,0,0,2>>,
    <<0,0,0,0,0,0,0,3>>, <<0,0,0,0,0,0,0,4>>, <<0,0,0,0,0,0,0,5>>, <<0,0,0,0,0,0,0,6>>,
    <<0,0,0,0,0,0,0,7>>, <<0,0,0,0,0,0,0,9>>, <<0,0,0,0,0,0,0,10>>, <<0,0,0,0,0,0,0,11>>,
    <<0,0,0,0,0,0,0,12>>, <<0,0,0,0,0,0,0,13>>, <<0,0,0,0,0,0,0,14>>, <<0,0,0,0,0,0,0,15>>,
    <<0,0,0,0,0,0,0,16>>, <<0,0,0,0,0,0,0,32>>, <<0,0,0,0,0,0,0,64>>, <<0,0,0,0,0,0,0,126>>,
    <<0,0,0,0,0,0,0,127>>, <<0,0,0,0,0,0,0,129>>, <<0,0,0,0,0,0,0,192>>, <<0,0,0,0,0,0,0,254>>,
    <<0,0,0,0,0,0,0,255>>, <<128,0,0,0,0,0,0,1>>, <<255,255,255,255,255,255,255,254>>
>>

(***************************************************************************)
(* TestCase (test_case/src/lib.rs) and the outcome of a mutator call.      *)
(***************************************************************************)
DefaultSize == 4096
\* TestCase::default
TestCaseDefault == [data |-> <<>>, size |-> DefaultSize, data_ptr |-> 0]
\* TestCase::new
TestCaseNew(data) == [data |-> data, size |-> Len(data), data_ptr |-> 0]

\* Result<()> of a mutator, or a panic of the thread; tc is the test case it leaves
Ok(tc) == [res |-> "Ok", tc |-> tc]
Err(tc) == [res |-> "Err", tc |-> tc]
Panic(tc) == [res |-> "Panic", tc |-> tc]

\* the index value standing for a panic inside get_random_index
NoIndex == -1

\* get_random_index(data, prng, exclude_off): assert!(!data.is_empty()), then
\* rand_exp(0, data.len() - exclude_off); the subtraction underflows when
\* exclude_off > data.len() and no index of data comes out of it
get_random_index(data, exclude_off) ==
    IF Len(data) = 0 \/ exclude_off > Len(data) THEN {NoIndex}
    ELSE rand_exp(0, Len(data) - exclude_off)

\* MutationEngine::ensure_printable
ensure_printable ==
    { IF cfg.printable THEN (((b - 32) % 256) % 95) + 32 ELSE b : b \in rand_byte }

\* MutationEngine::get_random_corpus_entry
get_random_corpus_entry ==
    { corpus[i + 1] : i \in rand_range(0, Len(corpus)) \cap (0..Len(corpus) - 1) }
    \cup (IF Len(corpus) = 0 THEN { Repeat(b, 128) : b \in rand_byte } ELSE {})

\* set_new_test_case without data.clear(): the entry is appended to what is there
set_new_test_case_no_clear(tc) ==
    { [tc EXCEPT !.data = tc.data \o corpus[idx + 1], !.data_ptr = 0,
                 !.size = Len(corpus[idx + 1])]
        : idx \in IF Len(corpus) = 0 THEN {} ELSE rand_range(0, Len(corpus)) }

\* MutationEngine::set_new_test_case: the test cases it can install; the
\* assert!(corpus_len > 0) fails on an empty corpus (no outcome)
set_new_test_case(tc) ==
    { [tc EXCEPT !.data = corpus[idx + 1], !.data_ptr = 0, !.size = Len(corpus[idx + 1])]
        : idx \in IF Len(corpus) = 0 THEN {} ELSE rand_range(0, Len(corpus)) }

(***************************************************************************)
(* The mutators: each yields the set of outcomes of one call on tc.        *)
(***************************************************************************)
\* MutationEngine::shuffle_bytes
shuffle_bytes(tc) ==
    IF tc.size < 2 THEN {Err(tc)}
    ELSE UNION { LET shuffle_amount == r + 1 IN
                 UNION { IF shuffle_start + shuffle_amount > Len(tc.data) THEN {Panic(tc)}
                         ELSE { Ok([tc EXCEPT !.data =
                                    Upto(tc.data, shuffle_start) \o p
                                    \o From(tc.data, shuffle_start + shuffle_amount)])
                                : p \in shuffle(Slice(tc.data, shuffle_start,
                                                      shuffle_start + shuffle_amount)) }
                         : shuffle_start \in rand_range(0, tc.size - shuffle_amount) }
               : r \in rand_range(1, Min(tc.size, 8)) }

\* the loop of erase_bytes: n times remove a byte at a random index
RECURSIVE erase_loop(_, _)
erase_loop(tc, n) ==
    IF n = 0 THEN {Ok(tc)}
    ELSE UNION { IF idx = NoIndex THEN {Panic(tc)}
                 ELSE erase_loop([tc EXCEPT !.data = Remove(tc.data, idx),
                                            !.size = tc.size - 1], n - 1)
                 : idx \in get_random_index(tc.data, 0) }

\* the max_factor of erase_bytes and insert_bytes
max_factor(tc) ==
    IF tc.size < 20 THEN tc.size ELSE Min(100, tc.size \div cfg.max_mutation_factor)

\* MutationEngine::erase_bytes
erase_bytes(tc) ==
    IF tc.size = 0 THEN {Err(tc)}
    ELSE erase_loop(tc, 1) \cup erase_loop(tc, max_factor(tc))

\* MutationEngine::insert_bytes
insert_bytes(tc) ==
    UNION { UNION {
        IF idx = NoIndex THEN {Panic(tc)}
        ELSE { Ok([tc EXCEPT !.data = Insert(tc.data, idx2, to_insert),
                             !.size = tc.size + 1])
               : idx2 \in get_random_index(tc.data, 0) }
             \cup
             { Ok([tc EXCEPT !.data = Upto(tc.data, idx)
                                      \o Repeat(to_insert, max_factor(tc))
                                      \o From(tc.data, idx),
                             !.size = tc.size + max_factor(tc)]) }
        : idx \in get_random_index(tc.data, 0) }
      : to_insert \in ensure_printable }

\* a sequence of ptr::swap calls, in order
RECURSIVE swap_all(_, _)
swap_all(data, pairs) ==
    IF Len(pairs) = 0 THEN data
    ELSE swap_all(SeqSwap(data, pairs[1][1], pairs[1][2]), Tail(pairs))
\* whether every index of the pairs is an index of data
pairs_in_bounds(data, pairs) ==
    \A k \in 1..Len(pairs) : \A x \in 1..2 : pairs[k][x] >= 0 /\ pairs[k][x] < Len(data)
swap_or_panic(tc, pairs) ==
    IF pairs_in_bounds(tc.data, pairs)
    THEN Ok([tc EXCEPT !.data = swap_all(tc.data, pairs)])
    ELSE Panic(tc)

\* swap_neighbors_width::<T>, bytes = size_of::<T>()
swap_neighbors_width(tc, bytes) ==
    LET data_size == tc.size IN
    IF data_size <= bytes THEN {Err(tc)}
    ELSE { IF idx = NoIndex THEN Panic(tc)
           ELSE IF idx + 2 * bytes < data_size
           THEN swap_or_panic(tc, [i \in 1..bytes |-> <<idx + i - 1, idx + bytes + i - 1>>])
           ELSE IF idx - bytes >= 0 /\ idx + bytes < data_size
           THEN swap_or_panic(tc, [i \in 1..bytes |-> <<idx - bytes + i - 1, idx + i - 1>>])
           ELSE LET max_bytes == Min(Min(data_size - idx, idx), bytes)
                    half_bytes == max_bytes \div 2
                IN IF max_bytes < 2
                   THEN IF max_bytes >= 0 /\ max_bytes < Len(tc.data)
                        THEN Ok([tc EXCEPT !.data =
                                 SetAt(tc.data, max_bytes, Not8(At(tc.data, max_bytes)))])
                        ELSE Panic(tc)
                   ELSE IF idx - half_bytes >= 0
                   THEN swap_or_panic(tc, [i \in 1..half_bytes |->
                                             <<idx - (i - 1), idx + half_bytes - (i - 1)>>])
                   ELSE swap_or_panic(tc, [i \in 1..half_bytes |->
                                             <<idx + i - 1, data_size - (i - 1) - 1>>])
           : idx \in get_random_index(tc.data, data_size - 1 - bytes) }

\* MutationEngine::swap_neighbors
swap_neighbors(tc) ==
    UNION { swap_neighbors_width(tc, Pow2(w)) : w \in 0..3 }

\* MutationEngine::swap_endianness
swap_endianness(tc) ==
    UNION { IF tc.size < width0 THEN {Err(tc)}
            ELSE { IF idx = NoIndex THEN Panic(tc)
                   ELSE LET width == Min(width0, tc.size - idx) IN
                        IF tc.size < idx \/ idx + width > Len(tc.data) THEN Panic(tc)
                        ELSE Ok([tc EXCEPT !.data =
                                 Overwrite(tc.data, idx,
                                           Reverse(Slice(tc.data, idx, idx + width)))])
                   : idx \in get_random_index(tc.data, 1) }
          : width0 \in pick(<<2, 4, 8>>) }

\* MutationEngine::change_bit
change_bit(tc) ==
    UNION { IF idx = NoIndex THEN {Panic(tc)}
            ELSE { Ok([tc EXCEPT !.data =
                       SetAt(tc.data, idx, Xor8(At(tc.data, idx), Pow2(bit)))])
                   : bit \in rand_range(0, 8) }
          : idx \in get_random_index(tc.data, 0) }

\* MutationEngine::change_byte
change_byte(tc) ==
    UNION { IF idx = NoIndex THEN {Panic(tc)}
            ELSE LET byte == At(tc.data, idx) IN
                 UNION { { Ok([tc EXCEPT !.data =
                               SetAt(tc.data, idx, IF r = byte THEN r + 1 ELSE r)]),
                           Ok([tc EXCEPT !.data =
                               SetAt(tc.data, idx,
                                     IF r = 0 THEN Xor8(byte, r + 1) ELSE Xor8(byte, r))]) }
                         : r \in rand_byte }
          : idx \in get_random_index(tc.data, 0) }

\* MutationEngine::negate_byte
negate_byte(tc) ==
    { IF idx = NoIndex THEN Panic(tc)
      ELSE Ok([tc EXCEPT !.data = SetAt(tc.data, idx, Not8(At(tc.data, idx)))])
      : idx \in get_random_index(tc.data, 0) }

\* the six operations of arithmetic::<T> on a little-endian value
arith_op(op, val) ==
    CASE op = 0 -> DecLE(val)
      [] op = 1 -> AddLE(val, 1)
      [] op = 2 -> ShlLE(val, 1)
      [] op = 3 -> NegLE(val)
      [] op = 4 -> ShlLE(val, 2)
      [] op = 5 -> ShrLE(val, 2)

\* arithmetic::<T>, bytes = size_of::<T>(): the value is read and written big-endian
arithmetic(tc, bytes) ==
    IF tc.size < bytes THEN {Err(tc)}
    ELSE UNION { IF idx = NoIndex THEN {Panic(tc)}
                 ELSE { Ok([tc EXCEPT !.data =
                            Overwrite(tc.data, idx,
                                Reverse(arith_op(op,
                                    Reverse(Slice(tc.data, idx, idx + bytes)))))])
                        : op \in 0..5 }
               : idx \in get_random_index(tc.data, bytes) }

\* MutationEngine::arithmetic_width
arithmetic_width(tc) ==
    UNION { arithmetic(tc, Pow2(w)) : w \in 0..3 }

\* the value standing for a panic on arithmetic overflow (overflow checks on)
Overflow == -1

\* the fold of change_ascii_integer over data[start..end]: u8 `+` and `*`, which
\* panic on overflow when the build has overflow checks and wrap when it has not
RECURSIVE ascii_fold(_, _, _)
ascii_fold(digits, i, acc) ==
    IF i >= Len(digits) THEN acc
    ELSE LET prod == (At(digits, i) - 48) * ((10 * (i % 256)) % 256)
             sum == acc + (prod % 256)
         IN IF cfg.overflow_checks /\ (prod > 255 \/ sum > 255) THEN Overflow
            ELSE ascii_fold(digits, i + 1, sum % 256)

\* the match on rand_range(0, 5) of change_ascii_integer, then the clamp to 9
ascii_ops(val) ==
    { Min(v, 9) : v \in { (val + 1) % 256, (val - 1) % 256, val \div 2, (val * 2) % 256 }
                        \cup { r % 256 : r \in rand_range(0, val * val) } }

\* MutationEngine::change_ascii_integer
change_ascii_integer(tc) ==
    UNION { IF skip_past >= Len(tc.data) THEN {Panic(tc)}
            ELSE LET data == From(tc.data, skip_past) IN
                 IF ~(\A k \in 1..Len(data) : IsAsciiDigit(data[k]))
                 THEN {Ok([tc EXCEPT !.data = SetAt(tc.data, 0, Not8(At(tc.data, 0)))])}
                 ELSE LET val == ascii_fold(data, 0, 0) IN
                      IF val = Overflow THEN {Panic(tc)}
                      ELSE { Ok([tc EXCEPT !.data =
                                 Upto(tc.data, skip_past) \o Repeat(v + 48, Len(data))])
                             : v \in ascii_ops(val) }
          : skip_past \in rand_range(0, tc.size) }

\* the `add` of change_binary_integer: (rand_range(0, 21) - 10).max(0)
binary_add == { Max(r - 10, 0) : r \in rand_range(0, 21) }

\* the `if add == val { val = rand_byte } val = val.wrapping_neg()` of change_binary_integer
binary_neg(v, add) ==
    IF v = ToLE(add, 8) THEN { NegLE(ToLE(r, 8)) : r \in rand_byte } ELSE { NegLE(v) }

\* MutationEngine::change_binary_integer; val (a usize) is kept as 8 little-endian bytes
change_binary_integer(tc) ==
    UNION { IF tc.size < bin_size THEN {Err(tc)}
            ELSE UNION { UNION {
                IF off + bin_size > Len(tc.data) THEN {Panic(tc)}
                ELSE LET read == ResizeLE(Reverse(Slice(tc.data, off, off + bin_size)), 8)
                         val0s == {read} \cup (IF off < 64 THEN {ToLE(tc.size, 8)} ELSE {})
                         val1s == UNION { { ResizeLE(AddLE(Reverse(Upto(v, bin_size)), add), 8),
                                            AddLE(v, add) } : v \in val0s }
                         negs == UNION { binary_neg(v, add) : v \in val1s }
                         vals == IF add = 0 THEN negs ELSE val1s \cup negs
                     IN { Ok([tc EXCEPT !.data =
                              Overwrite(tc.data, off, Reverse(Upto(v, bin_size)))])
                          : v \in vals }
                : add \in binary_add }
              : off \in rand_range(0, tc.size - bin_size + 1) }
          : bin_size \in pick(<<1, 2, 4, 8>>) }

\* copy_part_of(from, to, prng)
copy_part_of(from, tc) ==
    UNION { UNION { UNION {
        IF copy_size = 1
        THEN IF to_idx >= Len(tc.data) \/ from_idx >= Len(from) THEN {Panic(tc)}
             ELSE LET b == At(from, from_idx) IN
                  {Ok([tc EXCEPT !.data = SetAt(tc.data, to_idx,
                          Xor8(At(tc.data, to_idx), IF b = 0 THEN b + 1 ELSE b))])}
        ELSE LET adj == IF from_idx # to_idx THEN <<from_idx, to_idx, copy_size>>
                        ELSE IF from_idx > 0 THEN <<from_idx - 1, to_idx, copy_size>>
                        ELSE IF to_idx > 0 THEN <<from_idx, to_idx - 1, copy_size>>
                        ELSE IF from_idx + 1 + copy_size < Len(from)
                        THEN <<from_idx + 1, to_idx, copy_size>>
                        ELSE <<from_idx + 1, to_idx, copy_size - 1>>
             IN IF adj[1] + adj[3] > Len(from) \/ adj[2] + adj[3] > Len(tc.data)
                THEN {Panic(tc)}
                ELSE {Ok([tc EXCEPT !.data =
                          Overwrite(tc.data, adj[2], Slice(from, adj[1], adj[1] + adj[3]))])}
        : from_idx \in rand_range(0, Len(from) - copy_size + 1) }
      : copy_size \in { Min(r, Len(from)) : r \in rand_range(1, tc.size - to_idx + 1) } }
    : to_idx \in rand_range(0, tc.size) }

\* insert_part_of(from, to, prng, max_size)
insert_part_of(from, tc, max_size) ==
    LET available_space == max_size - tc.size
        max_copy_size == Min(available_space, Len(from))
    IN IF max_copy_size <= 0 THEN {Panic(tc)}
       ELSE UNION { UNION {
           { IF to_idx > Len(tc.data) \/ tc.size # Len(tc.data) THEN Panic(tc)
             ELSE Ok([tc EXCEPT !.data = Upto(tc.data, to_idx)
                                         \o Slice(from, from_idx, from_idx + copy_size)
                                         \o From(tc.data, to_idx),
                                !.size = tc.size + copy_size])
             : to_idx \in IF Len(tc.data) = 0 THEN {0} ELSE rand_range(0, tc.size) }
           : from_idx \in rand_range(0, Len(from) - copy_size + 1) }
         : copy_size \in rand_range(1, max_copy_size + 1) }

\* MutationEngine::copy_part
copy_part(tc) ==
    UNION { IF Len(rand_test_case) = 0 THEN {Panic(tc)}
            ELSE copy_part_of(rand_test_case, tc)
                 \cup (IF RangePanics(1, tc.size) THEN {Panic(tc)}
                       ELSE UNION { insert_part_of(rand_test_case, tc, tc.size + r)
                                    : r \in rand_range(1, tc.size) })
          : rand_test_case \in get_random_corpus_entry }

\* cross_over's loop draws a chunk length freely at most MaxFreeDraws times;
\* after that every draw is the longest chunk it may take
MaxFreeDraws == 2

\* the while loop of cross_over; s holds out, out_pos, pos1, pos2 and the turn,
\* x the two inputs; yields the `out` vectors the loop can finish with (a draw
\* that cannot be copied only passes the turn, and is followed while draws are free)
RECURSIVE cross_loop(_, _, _)
cross_loop(s, x, free) ==
    IF ~(s.out_pos < x.max_out_size /\ (s.pos1 < x.size1 \/ s.pos2 < x.size2))
    THEN {s.out}
    ELSE LET in_pos == IF s.first THEN s.pos1 ELSE s.pos2
             in_size == IF s.first THEN x.size1 ELSE x.size2
             data == IF s.first THEN x.data1 ELSE x.data2
         IN IF in_pos < in_size
            THEN LET max_extra_size == Min(x.max_out_size - s.out_pos, in_size - in_pos) IN
                 UNION { IF in_pos + extra_size <= Len(data)
                         THEN cross_loop(
                                [s EXCEPT
                                   !.out = Overwrite(s.out, s.out_pos,
                                             Slice(data, in_pos, in_pos + extra_size)),
                                   !.out_pos = s.out_pos + extra_size,
                                   !.pos1 = IF s.first THEN in_pos + extra_size ELSE @,
                                   !.pos2 = IF s.first THEN @ ELSE in_pos + extra_size,
                                   !.first = ~s.first],
                                x, Max(free - 1, 0))
                         ELSE IF free > 0
                         THEN cross_loop([s EXCEPT !.first = ~s.first], x, free - 1)
                         ELSE {}
                       : extra_size \in IF free > 0 THEN Sample(0, max_extra_size)
                                        ELSE {max_extra_size} }
            ELSE cross_loop([s EXCEPT !.first = ~s.first], x, free)

\* MutationEngine::cross_over
cross_over(tc) ==
    UNION { IF Len(data2) = 0 THEN {Panic(tc)}
            ELSE UNION { { Ok([tc EXCEPT !.data = out, !.size = max_out_size])
                           : out \in cross_loop(
                                 [out |-> Repeat(0, max_out_size), out_pos |-> 0,
                                  pos1 |-> 0, pos2 |-> 0, first |-> TRUE],
                                 [data1 |-> tc.data, size1 |-> tc.size,
                                  data2 |-> data2, size2 |-> Len(data2),
                                  max_out_size |-> max_out_size],
                                 MaxFreeDraws) }
                       : max_out_size \in Sample(1, Len(tc.data) + Len(data2)) }
          : data2 \in get_random_corpus_entry }

\* MutationEngine::splice
splice(tc) ==
    IF Len(corpus) = 0 THEN {Panic(tc)}
    ELSE UNION { UNION { { IF split_idx > Len(tc.data) THEN Panic(tc)
                           ELSE LET new_data == Upto(tc.data, split_idx)
                                                \o From(splice_tc, splice_idx)
                                IN Ok([tc EXCEPT !.data = new_data, !.size = Len(new_data)])
                           : splice_idx \in rand_range(0, Len(splice_tc)) }
                         : split_idx \in rand_range(0, tc.size) }
               : splice_tc \in pick(corpus) }

\* the (size, percent) pairs below 200 bytes for which the f64 product
\* size * (1.0 - percent * 0.01) lies just under the exact integer quotient
TruncRoundsDown(size, p) ==
    <<size, p>> \in { <<20, 35>>, <<40, 35>>, <<50, 34>>, <<60, 35>>, <<75, 32>>, <<80, 35>>,
                      <<90, 30>>, <<100, 34>>, <<100, 35>>, <<120, 35>>, <<125, 32>>,
                      <<140, 35>>, <<150, 32>>, <<150, 34>>, <<160, 35>>, <<170, 30>>,
                      <<175, 32>>, <<180, 30>>, <<180, 35>> }

\* truncate that shortens size and leaves data as it is
truncate_size_only(tc) ==
    { Ok([tc EXCEPT !.size = (tc.size * (100 - (r + 1))) \div 100]) : r \in rand_range(0, 50) }

\* MutationEngine::truncate
truncate(tc) ==
    { LET p == r + 1
          new_size == ((tc.size * (100 - p)) \div 100) - (IF TruncRoundsDown(tc.size, p) THEN 1 ELSE 0)
      IN Ok([tc EXCEPT !.size = new_size, !.data = Upto(tc.data, Min(new_size, Len(tc.data)))])
      : r \in rand_range(0, 50) }

\* MutationEngine::append
append(tc) ==
    IF tc.size < cfg.mutation_passes THEN {Panic(tc)}
    ELSE { LET to == from + cfg.mutation_passes IN
           IF to > Len(tc.data) THEN Panic(tc)
           ELSE Ok([tc EXCEPT !.data = tc.data \o Slice(tc.data, from, to),
                              !.size = tc.size + cfg.mutation_passes])
           : from \in rand_range(0, tc.size - cfg.mutation_passes) }

\* the four tables add_from_magic picks from, by dice roll
magic_table(dice_roll) ==
    CASE dice_roll = 0 -> MAGIC_8
      [] dice_roll = 1 -> MAGIC_16
      [] dice_roll = 2 -> MAGIC_32
      [] dice_roll = 3 -> MAGIC_64

\* MutationEngine::add_from_magic; val is kept as its little-endian bytes
add_from_magic(tc) ==
    UNION { LET val_size == Pow2(dice_roll) IN
            UNION { IF val_size > tc.size THEN {Err(tc)}
                    ELSE { IF idx = NoIndex THEN Panic(tc)
                           ELSE IF idx + val_size >= tc.size THEN Err(tc)
                           ELSE IF idx + val_size > Len(tc.data) THEN Panic(tc)
                           ELSE IF SigBytes(val) = 0
                           THEN Ok([tc EXCEPT !.data =
                                    Overwrite(tc.data, idx, Repeat(0, val_size))])
                           ELSE LET unset_bytes == SigBytes(val)
                                    start == idx + val_size - unset_bytes
                                IN Ok([tc EXCEPT !.data =
                                       Overwrite(tc.data, start, Upto(val, unset_bytes))])
                           : idx \in get_random_index(tc.data, val_size) }
                  : val \in pick(magic_table(dice_roll)) }
          : dice_roll \in 0..3 }

\* add_from_dict(dict, data, prng)
add_from_dict(dict, tc) ==
    IF Len(dict) = 0 THEN {Panic(tc)}
    ELSE UNION { LET val_size == Len(val) IN
                 IF val_size > Len(tc.data) THEN {Err(tc)}
                 ELSE UNION { IF val_size = 1
                              THEN {Ok([tc EXCEPT !.data = SetAt(tc.data, to, val[1])])}
                              ELSE { Ok([tc EXCEPT !.data = Overwrite(tc.data, to, val)]),
                                     Ok([tc EXCEPT !.data = Overwrite(tc.data, to, Reverse(val))]) }
                            : to \in rand_range(0, Len(tc.data) - val_size) }
               : val \in pick(dict) }

\* MutationEngine::add_word_from_dict
add_word_from_dict(tc) == add_from_dict(cfg.user_token_dict, tc)

\* torc_token_dict: empty in Default and never assigned
torc_token_dict == <<>>

\* add_word_from_torc that clears the first byte before it reports the empty dictionary
add_word_from_torc_dirty(tc) ==
    {Err([tc EXCEPT !.data = IF Len(tc.data) = 0 THEN tc.data ELSE SetAt(tc.data, 0, 0)])}

\* MutationEngine::add_word_from_torc
add_word_from_torc(tc) ==
    IF Len(torc_token_dict) = 0 THEN {Err(tc)}
    ELSE add_from_dict(torc_token_dict, tc)

\* MutationEngine::set_test_case
set_test_case(data) == TestCaseNew(data)

\* the raw values of successive prng.rand() calls that are followed through
\* mutate_area: r for its match, x and y for positions, b for rand_byte
Draws == [r : 0..3, x : {0, 1, 130}, y : {1, 2}, b : {0, 254}]

\* Rng::rand_two(max) on the raw values x, y and then 0, 1: drawn again while
\* the two are equal, returned in ascending order
rand_two_by(x, y, max) ==
    IF max <= 1 THEN <<0, 1>>
    ELSE IF x % max # y % max THEN <<Min(x % max, y % max), Max(x % max, y % max)>>
    ELSE <<0, 1>>

\* mutate_area, arm 0 (insert a random byte) at the position drawn from raw
area_insert(data, raw, b) ==
    LET pos == IF Len(data) = 0 THEN 0 ELSE raw % Len(data) IN
    Upto(data, pos) \o <<b>> \o From(data, pos)

\* mutate_area(data, out, prng, corpus) under the draws d: what it writes to
\* out. Arm 0 inserts a random byte, arm 1 deletes a byte, arms 2..=3 jump over
\* data[a..b]; an arm that `continue`s is followed by arm 0 on the next draw
mutate_area_by(data, d) ==
    LET end == Len(data) IN
    CASE d.r = 0 -> area_insert(data, d.x, d.b)
      [] d.r = 1 -> LET pos == IF end = 0 THEN 0 ELSE d.x % end IN
                    IF pos + 1 >= end THEN area_insert(data, d.y, d.b)
                    ELSE Upto(data, pos) \o From(data, pos + 1)
      [] d.r \in 2..3 -> IF end <= 1 THEN area_insert(data, d.y, d.b)
                         ELSE LET ab == rand_two_by(d.x, d.y, end) IN
                              Upto(data, ab[1]) \o From(data, ab[2])

\* ni_area(data, n, out, prng, corpus) for n = 1 or fewer than 256 bytes: the
\* one area popped from the stack goes to mutate_area
ni_area_by(data, n, d) == mutate_area_by(data, d)

\* ni_mutate(data, data_sz, prng, corpus) below 4096 bytes: Ok(res) with what
\* ni_area wrote, for each of the draws followed
ni_mutate(data, data_sz) == { ni_area_by(data, 1, d) : d \in Draws }

\* MutationEngine::ni
ni(tc) == { Ok(set_test_case(out)) : out \in ni_mutate(tc.data, tc.size) }

\* what the grammar generator writes: nothing with the default (dummy)
\* generator, a sentence of the grammar with a loaded one
grammar_out == IF cfg.grammar THEN { <<123, 125>>, <<91, 49, 93>> } ELSE { <<>> }

\* MutationEngine::grammar_gen
grammar_gen(tc) == { Ok(set_test_case(out)) : out \in grammar_out }

\* the mutators of Default, and the ones set_token_dict and
\* enable_custom_mutators push
DefaultMutators ==
    { "ShuffleBytes", "EraseBytes", "InsertBytes", "SwapNeighbors", "SwapEndianness",
      "ChangeBit", "ChangeByte", "NegateByte", "ArithmeticWidth", "CopyPart",
      "ChangeASCIIInteger", "ChangeBinaryInteger", "CrossOver", "Splice", "Truncate",
      "Append", "AddFromMagic", "AddWordFromTORC" }
AllMutators == DefaultMutators \cup { "AddWordFromDict", "Ni", "GrammarGenerator" }

\* the match of mutate(): the outcomes of the mutator behind a tag
run_mutator(m, tc) ==
    CASE m = "ShuffleBytes" -> shuffle_bytes(tc)
      [] m = "EraseBytes" -> erase_bytes(tc)
      [] m = "InsertBytes" -> insert_bytes(tc)
      [] m = "SwapNeighbors" -> swap_neighbors(tc)
      [] m = "SwapEndianness" -> swap_endianness(tc)
      [] m = "ChangeBit" -> change_bit(tc)
      [] m = "ChangeByte" -> change_byte(tc)
      [] m = "ArithmeticWidth" -> arithmetic_width(tc)
      [] m = "NegateByte" -> negate_byte(tc)
      [] m = "CopyPart" -> copy_part(tc)
      [] m = "ChangeASCIIInteger" -> change_ascii_integer(tc)
      [] m = "ChangeBinaryInteger" -> change_binary_integer(tc)
      [] m = "CrossOver" -> cross_over(tc)
      [] m = "Splice" -> splice(tc)
      [] m = "Truncate" -> truncate(tc)
      [] m = "Append" -> append(tc)
      [] m = "AddFromMagic" -> add_from_magic(tc)
      [] m = "AddWordFromDict" -> add_word_from_dict(tc)
      [] m = "AddWordFromTORC" -> add_word_from_torc(tc)
      [] m = "Ni" -> ni(tc)
      [] m = "GrammarGenerator" -> grammar_gen(tc)

(***************************************************************************)
(* The mutation engine as a state machine: set_test_case, and mutate() as  *)
(* set_new_test_case followed by one step per pass.                        *)
(***************************************************************************)
\* the corpora an engine is given with set_corpus
Corpora ==
    { << <<65>>, <<48, 57, 57>> >>,
      << <<0, 254>>, <<40, 49, 41, 10>> >>,
      << <<1, 2, 3, 4, 5, 6, 7, 8, 9>> >>,
      << <<>>, <<66, 67>> >>,
      << >> }

\* the engine configurations: Default, then the builder calls that change it
Configs ==
    { [printable |-> pr, max_mutation_factor |-> 10, mutation_passes |-> n,
       overflow_checks |-> oc, mutators |-> ms[1], user_token_dict |-> ms[2],
       grammar |-> ms[3]]
      : pr \in BOOLEAN, n \in 0..MaxPasses, oc \in BOOLEAN,
        ms \in { <<DefaultMutators, <<>>, FALSE>>,
                 <<DefaultMutators \cup {"AddWordFromDict"}, << <<70>>, <<71, 72>> >>, FALSE>>,
                 <<DefaultMutators \cup {"AddWordFromDict"}, <<>>, FALSE>>,
                 <<DefaultMutators \cup {"Ni", "GrammarGenerator"}, <<>>, TRUE>>,
                 <<DefaultMutators \cup {"Ni"}, <<>>, FALSE>> } }

\* the data a caller installs with set_test_case
Installable == { <<200, 201>> }

\* last: the mutator of the latest pass, its Result, the passes done before it,
\* and (unless it returned Ok) the test case it was called on
NoLast == [mutator |-> "none", pre |-> TestCaseDefault, res |-> "none", done |-> 0]

\* the engines followed: a corpus with a long entry under the mutators of
\* Default, and more than one pass per mutate() on the corpus of short
\* entries, non-printable, with the custom mutators enabled
Followed(c, f) ==
    \/ f.mutation_passes = 0
    \/ /\ f.mutation_passes = 1
       /\ \/ \A i \in 1..Len(c) : Len(c[i]) <= 4
          \/ f.mutators = DefaultMutators
    \/ /\ f.mutation_passes > 1
       /\ Len(c) > 0
       /\ \A i \in 1..Len(c) : Len(c[i]) \in 1..3
       /\ ~f.printable
       /\ f.mutators = DefaultMutators \cup {"Ni", "GrammarGenerator"}

EngineIdle ==
    /\ test_case = TestCaseDefault
    /\ pc = "idle"
    /\ passes_done = 0
    /\ last = NoLast
    /\ installed = "none"

\* MutationEngine::set_test_case called between two mutate() calls
SetTestCase ==
    /\ pc \in {"idle", "returned"}
    /\ \E data \in Installable :
         /\ test_case' = set_test_case(data)
         /\ installed' = data
    /\ pc' = "idle"
    /\ passes_done' = 0
    /\ last' = NoLast
    /\ UNCHANGED <<corpus, cfg, arc_vars, load_vars, worker_vars, ni_vars, lib_vars>>

\* mutate(), first statement: set_new_test_case
MutateBegin ==
    /\ pc \in {"idle", "returned"}
    /\ IF set_new_test_case(test_case) = {}
       THEN /\ pc' = "panicked"
            /\ UNCHANGED <<test_case, last>>
       ELSE /\ \E tc \in set_new_test_case(test_case) :
                 /\ test_case' = tc
                 /\ last' = [NoLast EXCEPT !.pre = tc]
            /\ pc' = "mutating"
    /\ passes_done' = 0
    /\ UNCHANGED <<corpus, cfg, installed, arc_vars, load_vars, worker_vars, ni_vars, lib_vars>>

\* mutate(), one iteration of `for _ in 0..self.mutation_passes` in which
\* prng.pick(&self.mutators) yields m, a tag of the list; the Result is
\* dropped (`let _ =`)
Pass(m) ==
    /\ pc = "mutating"
    /\ passes_done < cfg.mutation_passes
    /\ \E o \in run_mutator(m, test_case) :
         /\ test_case' = o.tc
         /\ last' = [mutator |-> m, res |-> o.res, done |-> passes_done,
                     pre |-> IF o.res = "Ok" THEN TestCaseDefault ELSE test_case]
         /\ IF o.res = "Panic"
            THEN pc' = "panicked" /\ UNCHANGED passes_done
            ELSE pc' = "mutating" /\ passes_done' = passes_done + 1
    /\ UNCHANGED <<corpus, cfg, installed, arc_vars, load_vars, worker_vars, ni_vars, lib_vars>>

PassShuffleBytes ==
    /\ "ShuffleBytes" \in cfg.mutators
    /\ Pass("ShuffleBytes")
PassEraseBytes ==
    /\ "EraseBytes" \in cfg.mutators
    /\ Pass("EraseBytes")
PassInsertBytes ==
    /\ "InsertBytes" \in cfg.mutators
    /\ Pass("InsertBytes")
PassSwapNeighbors ==
    /\ "SwapNeighbors" \in cfg.mutators
    /\ Pass("SwapNeighbors")
PassSwapEndianness ==
    /\ "SwapEndianness" \in cfg.mutators
    /\ Pass("SwapEndianness")
PassChangeBit ==
    /\ "ChangeBit" \in cfg.mutators
    /\ Pass("ChangeBit")
PassChangeByte ==
    /\ "ChangeByte" \in cfg.mutators
    /\ Pass("ChangeByte")
PassNegateByte ==
    /\ "NegateByte" \in cfg.mutators
    /\ Pass("NegateByte")
PassArithmeticWidth ==
    /\ "ArithmeticWidth" \in cfg.mutators
    /\ Pass("ArithmeticWidth")
PassCopyPart ==
    /\ "CopyPart" \in cfg.mutators
    /\ Pass("CopyPart")
PassChangeASCIIInteger ==
    /\ "ChangeASCIIInteger" \in cfg.mutators
    /\ Pass("ChangeASCIIInteger")
PassChangeBinaryInteger ==
    /\ "ChangeBinaryInteger" \in cfg.mutators
    /\ Pass("ChangeBinaryInteger")
PassCrossOver ==
    /\ "CrossOver" \in cfg.mutators
    /\ Pass("CrossOver")
PassSplice ==
    /\ "Splice" \in cfg.mutators
    /\ Pass("Splice")
PassTruncate ==
    /\ "Truncate" \in cfg.mutators
    /\ Pass("Truncate")
PassAppend ==
    /\ "Append" \in cfg.mutators
    /\ Pass("Append")
PassAddFromMagic ==
    /\ "AddFromMagic" \in cfg.mutators
    /\ Pass("AddFromMagic")
PassAddWordFromDict ==
    /\ "AddWordFromDict" \in cfg.mutators
    /\ Pass("AddWordFromDict")
PassAddWordFromTORC ==
    /\ "AddWordFromTORC" \in cfg.mutators
    /\ Pass("AddWordFromTORC")
PassNi ==
    /\ "Ni" \in cfg.mutators
    /\ Pass("Ni")
PassGrammarGenerator ==
    /\ "GrammarGenerator" \in cfg.mutators
    /\ Pass("GrammarGenerator")

\* mutate(), after the loop: `&mut self.test_case`
MutateReturn ==
    /\ pc = "mutating"
    /\ passes_done = cfg.mutation_passes
    /\ pc' = "returned"
    /\ UNCHANGED <<corpus, cfg, test_case, passes_done, last, installed>>
    /\ UNCHANGED <<arc_vars, load_vars, worker_vars, ni_vars, lib_vars>>

\* the variables of the other components, at rest
ArcIdle ==
    /\ arcs = <<>> /\ me_corpus = 0 /\ holders = <<>> /\ added = <<>> /\ base = <<>>
LoadIdle ==
    /\ disk = "none" /\ loaded = "none"
WorkerIdle ==
    /\ wk = <<>> /\ fstats = [iterations |-> 0, crashes |-> 0]
    /\ crash_dir = <<>> /\ wlog = {} /\ mode = "none"
NiIdle ==
    /\ par = "none"
TcIdle ==
    /\ harness = "none" /\ call = "none"
GrammarIdle ==
    /\ grammar = "none" /\ optimizer = "none" /\ generator = "none"
PrngIdle ==
    /\ gens = "none" /\ rng = "none"
RunIdle ==
    /\ monitor = "none" /\ area = "none"
LibIdle ==
    /\ TcIdle /\ GrammarIdle /\ PrngIdle /\ RunIdle

InitEngine ==
    /\ corpus \in Corpora
    /\ cfg \in Configs
    /\ Followed(corpus, cfg)
    /\ EngineIdle
    /\ ArcIdle /\ LoadIdle /\ WorkerIdle /\ NiIdle /\ LibIdle

NextEngine ==
    \/ SetTestCase
    \/ MutateBegin
    \/ PassShuffleBytes \/ PassEraseBytes \/ PassInsertBytes \/ PassSwapNeighbors \/ PassSwapEndianness
    \/ PassChangeBit \/ PassChangeByte \/ PassNegateByte \/ PassArithmeticWidth \/ PassCopyPart
    \/ PassChangeASCIIInteger \/ PassChangeBinaryInteger \/ PassCrossOver \/ PassSplice
    \/ PassTruncate \/ PassAppend \/ PassAddFromMagic \/ PassAddWordFromDict \/ PassAddWordFromTORC
    \/ PassNi \/ PassGrammarGenerator
    \/ MutateReturn

SpecEngine == InitEngine /\ [][NextEngine]_vars

(***************************************************************************)
(* Properties of the mutation engine.                                      *)
(***************************************************************************)
CorpusEntries == { corpus[i] : i \in 1..Len(corpus) }
NonEmptyEntries == Len(corpus) > 0 /\ \A e \in CorpusEntries : Len(e) > 0

\* the mutator of the latest pass ran on the entry set_new_test_case installed
FirstPass == last.mutator # "none" /\ last.done = 0

\* C1: after mutate() returns, on a corpus whose entries are all non-empty,
\* the test case has size = data.len() and 0 <= data_ptr <= size, whatever
\* mutators are enabled, however many passes were made and whatever was drawn.
C1_SizeIsDataLen ==
    (pc = "returned" /\ NonEmptyEntries)
        => /\ test_case.size = Len(test_case.data)
           /\ 0 <= test_case.data_ptr
           /\ test_case.data_ptr <= test_case.size

\* C1 witness: a two-pass mutate() with the custom mutators enabled has
\* returned a test case longer than every corpus entry.
C1_Witness ==
    /\ pc = "returned" /\ NonEmptyEntries
    /\ passes_done = 2
    /\ "Ni" \in cfg.mutators
    /\ last.mutator = "CrossOver"
    /\ \A e \in CorpusEntries : Len(test_case.data) > Len(e)

\* C2: one pass of a Default engine on a corpus entry of length >= 2 (all
\* entries non-empty) never panics: the mutator returns Ok or Err.
C2_NoPanicOnePass ==
    ~ ( /\ pc = "panicked"
        /\ cfg.mutation_passes = 1
        /\ cfg.mutators = DefaultMutators
        /\ NonEmptyEntries
        /\ FirstPass
        /\ last.res = "Panic"
        /\ Len(last.pre.data) >= 2 )

\* C3: when the mutator of the latest pass returned Err, data and size are
\* what they were when it was called, and the pass is counted: no retry.
C3_ErrLeavesTestCase ==
    (last.res = "Err")
        => /\ test_case.data = last.pre.data
           /\ test_case.size = last.pre.size
           /\ passes_done = last.done + 1
           /\ pc \in {"mutating", "returned"}

\* C3 witness: add_from_magic failed on a test case shorter than the value
\* it picked, as the last pass of a mutate() that has returned.
C3_Witness ==
    /\ pc = "returned"
    /\ last.res = "Err"
    /\ last.mutator = "AddFromMagic"
    /\ last.pre.size >= 2
    /\ passes_done = cfg.mutation_passes

NumWorkers == 2
\* fconfig.batch_sz
BatchSz == 2
\* each worker is followed for MaxWorkerIters iterations of its inner loop
MaxWorkerIters == 2

Workers == 0..(NumWorkers - 1)

\* the exit codes and signals the PUT is seen to end with
ExitCodes == {0, 3, 4, 15, 16}
Signals == {11}
Statuses ==
    { [kind |-> "exit", code |-> c] : c \in ExitCodes }
    \cup { [kind |-> "signal", code |-> s] : s \in Signals }

\* no child waited for yet, and the Err of child_proc.wait()
NoStatus == [kind |-> "none", code |-> 0]
WaitErr == [kind |-> "WaitingForTarget", code |-> 0]

\* ExitStatus::success
success(status) == status.kind = "exit" /\ status.code = 0
\* ExitStatus::code: None when the child was terminated by a signal
HasCode(status) == status.kind = "exit"
\* a classification that takes every non-zero exit code for a crash
IsNonZeroCode(code) == code # 0
\* [4, 5, 6, 7, 8, 9, 10, 11, 12, 13, 14, 15].contains(&code)
IsCrashCode(code) == code \in 4..15

\* the mutators the workers' engines are seen to pick
WorkerPicks == {"NegateByte", "AddWordFromTORC"}

\* me.mutate() of a worker: set_new_test_case, then mutation_passes passes
RECURSIVE mutate_passes(_, _)
mutate_passes(tc, n) ==
    IF n = 0 THEN {Ok(tc)}
    ELSE UNION { UNION { IF o.res = "Panic" THEN {o} ELSE mutate_passes(o.tc, n - 1)
                         : o \in run_mutator(m, tc) }
                 : m \in cfg.mutators \cap WorkerPicks }
mutate(tc) ==
    IF set_new_test_case(tc) = {} THEN {Panic(tc)}
    ELSE UNION { mutate_passes(t, cfg.mutation_passes) : t \in set_new_test_case(tc) }

\* the crash file's name without the thread's identifier
crash_file_no_thr(thr_id, code, ordinal) == <<"crash", code, ordinal>>

\* format!(".crash_{thr_id}_{code}_{}", fstats.get_crashes())
crash_file(thr_id, code, ordinal) == <<"crash", thr_id, code, ordinal>>

\* a worker at the top of its inner loop, nothing run yet
FreshWorker ==
    [pc |-> "mutate", tc |-> TestCaseDefault, i |-> 0, n |-> 0, status |-> NoStatus,
     inc |-> FALSE, ordinal |-> 0, wrote |-> <<>>, cause |-> "none"]

\* worker: me.mutate() at the top of an iteration of `for _i in 0..batch_sz`
WorkerMutate(t) ==
    /\ wk[t].pc = "mutate"
    /\ wk[t].n < MaxWorkerIters
    /\ wk[t].i < BatchSz
    /\ \E o \in mutate(wk[t].tc) :
         wk' = [wk EXCEPT ![t] =
                  IF o.res = "Panic"
                  THEN [@ EXCEPT !.pc = "dead", !.cause = "mutate"]
                  ELSE [@ EXCEPT !.pc = "fuzz", !.tc = o.tc, !.n = @ + 1,
                                 !.status = NoStatus, !.inc = FALSE, !.ordinal = 0,
                                 !.wrote = <<>>]]
    /\ UNCHANGED <<fstats, crash_dir, wlog, mode>>
    /\ UNCHANGED <<engine_vars, arc_vars, load_vars, ni_vars, lib_vars>>

\* worker: `fuzz(...)?` - fuzz_from_file writes the input file and spawns the
\* PUT, fuzz_from_stdin only spawns it; an Err leaves worker() through `?` and
\* the thread panics in spawn_workers' expect
WorkerFuzz(t) ==
    /\ wk[t].pc = "fuzz"
    /\ \E r \in {"Ok", "SpawningTarget"} \cup (IF mode = "file" THEN {"WritingTestcase"} ELSE {}) :
         wk' = [wk EXCEPT ![t] =
                  IF r = "Ok" THEN [@ EXCEPT !.pc = "wait"]
                  ELSE [@ EXCEPT !.pc = "dead", !.cause = r]]
    /\ UNCHANGED <<fstats, crash_dir, wlog, mode>>
    /\ UNCHANGED <<engine_vars, arc_vars, load_vars, ni_vars, lib_vars>>

\* the end of an iteration of the inner loop; after the last of a batch,
\* fstats.inc_iterations_by(batch_sz)
IterationEnd(w) ==
    IF w.i + 1 = BatchSz THEN [w EXCEPT !.pc = "batch", !.i = 0]
    ELSE [w EXCEPT !.pc = "mutate", !.i = @ + 1]

\* worker: child_proc.wait() fails: the error is printed, the child killed
WorkerWaitErr(t) ==
    /\ wk[t].pc = "wait"
    /\ wk' = [wk EXCEPT ![t] = IterationEnd([@ EXCEPT !.status = WaitErr])]
    /\ wlog' = wlog \cup {<<t, "Error">>}
    /\ UNCHANGED <<fstats, crash_dir, mode>>
    /\ UNCHANGED <<engine_vars, arc_vars, load_vars, ni_vars, lib_vars>>

\* worker: child_proc.wait() yields the status; the match on it up to and
\* including fstats.inc_crashes()
WorkerWait(t) ==
    /\ wk[t].pc = "wait"
    /\ \E status \in Statuses :
         IF success(status)
         THEN /\ wk' = [wk EXCEPT ![t] = IterationEnd([@ EXCEPT !.status = status])]
              /\ UNCHANGED <<fstats, wlog>>
         ELSE IF HasCode(status)
         THEN IF IsCrashCode(status.code)
              THEN /\ wlog' = wlog \cup {<<t, "Exited with code">>}
                   /\ fstats' = [fstats EXCEPT !.crashes = @ + 1]
                   /\ wk' = [wk EXCEPT ![t] = [@ EXCEPT !.pc = "name", !.status = status,
                                                        !.inc = TRUE]]
              ELSE /\ wk' = [wk EXCEPT ![t] = IterationEnd([@ EXCEPT !.status = status])]
                   /\ UNCHANGED <<fstats, wlog>>
         ELSE /\ wlog' = wlog \cup {<<t, "Exited with signal">>}
              /\ wk' = [wk EXCEPT ![t] = IterationEnd([@ EXCEPT !.status = status])]
              /\ UNCHANGED fstats
    /\ UNCHANGED <<crash_dir, mode>>
    /\ UNCHANGED <<engine_vars, arc_vars, load_vars, ni_vars, lib_vars>>

\* worker: fstats.get_crashes() for the crash file's name
WorkerName(t) ==
    /\ wk[t].pc = "name"
    /\ wk' = [wk EXCEPT ![t] = [@ EXCEPT !.pc = "write", !.ordinal = fstats.crashes]]
    /\ UNCHANGED <<fstats, crash_dir, wlog, mode>>
    /\ UNCHANGED <<engine_vars, arc_vars, load_vars, ni_vars, lib_vars>>

\* worker: fs::write(crash_dir.join(crash_file), data).unwrap()
WorkerWrite(t) ==
    /\ wk[t].pc = "write"
    /\ LET name == crash_file(t, wk[t].status.code, wk[t].ordinal) IN
       \/ /\ crash_dir' = [f \in DOMAIN crash_dir \cup {name} |->
                             IF f = name THEN wk[t].tc.data ELSE crash_dir[f]]
          /\ wk' = [wk EXCEPT ![t] = IterationEnd([@ EXCEPT !.wrote = name])]
       \/ /\ wk' = [wk EXCEPT ![t] = [@ EXCEPT !.pc = "dead", !.cause = "WritingCrash"]]
          /\ UNCHANGED crash_dir
    /\ UNCHANGED <<fstats, wlog, mode>>
    /\ UNCHANGED <<engine_vars, arc_vars, load_vars, ni_vars, lib_vars>>

\* worker: fstats.inc_iterations_by(fconfig.batch_sz) after the inner loop
WorkerBatch(t) ==
    /\ wk[t].pc = "batch"
    /\ fstats' = [fstats EXCEPT !.iterations = @ + BatchSz]
    /\ wk' = [wk EXCEPT ![t] = [@ EXCEPT !.pc = "mutate"]]
    /\ UNCHANGED <<crash_dir, wlog, mode>>
    /\ UNCHANGED <<engine_vars, arc_vars, load_vars, ni_vars, lib_vars>>

InitWorker ==
    /\ corpus = << <<65>> >>
    /\ cfg \in { f \in Configs : /\ f.mutation_passes = 1 /\ ~f.printable
                                 /\ f.mutators = DefaultMutators /\ f.overflow_checks }
    /\ EngineIdle
    /\ ArcIdle /\ LoadIdle /\ NiIdle /\ LibIdle
    /\ wk = [t \in Workers |-> FreshWorker]
    /\ fstats = [iterations |-> 0, crashes |-> 0]
    /\ crash_dir = <<>>
    /\ wlog = {}
    /\ mode \in {"file", "stdin"}

NextWorker ==
    \/ \E t \in Workers : WorkerMutate(t)
    \/ \E t \in Workers : WorkerFuzz(t)
    \/ \E t \in Workers : WorkerWaitErr(t)
    \/ \E t \in Workers : WorkerWait(t)
    \/ \E t \in Workers : WorkerName(t)
    \/ \E t \in Workers : WorkerWrite(t)
    \/ \E t \in Workers : WorkerBatch(t)

SpecWorker == InitWorker /\ [][NextWorker]_vars

(***************************************************************************)
(* Properties of the worker loop.                                          *)
(***************************************************************************)
\* worker t has finished an iteration in which wait() yielded a status
IterDone(t) ==
    /\ wk[t].pc \in {"mutate", "batch"}
    /\ wk[t].status.kind \in {"exit", "signal"}

\* what a finished iteration of worker t recorded: the counter incremented and
\* the test case's bytes in crash_dir under the name of thr_id, code and ordinal
Recorded(t) ==
    /\ wk[t].inc
    /\ wk[t].wrote = crash_file(t, wk[t].status.code, wk[t].ordinal)
    /\ wk[t].wrote \in DOMAIN crash_dir
    /\ crash_dir[wk[t].wrote] = wk[t].tc.data

C4_Classified ==
    \A t \in Workers :
        (IterDone(t) /\ wk[t].status.kind = "exit")
            => IF wk[t].status.code \in 4..15
               THEN Recorded(t) /\ wk[t].ordinal >= 1
               ELSE ~wk[t].inc /\ wk[t].wrote = <<>>

C4_WaitStep ==
    \A t \in Workers :
        (wk[t].pc = "wait" /\ wk'[t].pc # "wait" /\ wk'[t].status.kind = "exit")
            => /\ crash_dir' = crash_dir
               /\ fstats'.crashes =
                    IF wk'[t].status.code \in 4..15 THEN fstats.crashes + 1 ELSE fstats.crashes

\* C4: an iteration counts a crash and writes the test case's bytes to
\* .crash_<thr>_<code>_<ordinal> exactly when the child exited with a code in
\* 4..15; on exit code 0 and on any other code the step that classifies the
\* status leaves the counter and the crash directory as they are and no file
\* is written.
C4_CrashIffCodeInSet == []C4_Classified /\ [][C4_WaitStep]_vars

\* C4 witness: one worker has recorded a crash for exit code 15 while the
\* other finished an iteration with exit code 16 and recorded nothing.
C4_Witness ==
    \E t, u \in Workers :
        /\ t # u
        /\ IterDone(t) /\ wk[t].status = [kind |-> "exit", code |-> 15] /\ Recorded(t)
        /\ IterDone(u) /\ wk[u].status = [kind |-> "exit", code |-> 16] /\ ~wk[u].inc

\* C5: every input on which the PUT is terminated by a signal in 4..15 is
\* recorded: counter incremented, bytes persisted in the crash directory.
C5_SignalsRecorded ==
    \A t \in Workers :
        (IterDone(t) /\ wk[t].status.kind = "signal" /\ wk[t].status.code \in 4..15)
            => Recorded(t)

\* C6: no error of spawning the PUT or of writing the input file or a crash
\* file ends a worker.
C6_IoErrorsSurvived ==
    \A t \in Workers :
        wk[t].pc = "dead" => wk[t].cause \notin {"SpawningTarget", "WritingTestcase", "WritingCrash"}

(***************************************************************************)
(* The corpus behind Arc<Vec<Vec<u8>>>: a heap of allocations with strong  *)
(* counts; the engine's field and the other holders point into it.         *)
(***************************************************************************)
\* add_to_corpus is called at most MaxAdded times after a set_corpus
MaxAdded == 2
\* at most MaxArcs allocations are made
MaxArcs == 3
\* at most MaxHolders clones are held outside the engine
MaxHolders == 2
\* entries of a corpus directory
MaxDirEntries == 3

\* the vectors a caller shares with set_corpus, and the entries it adds
SharedVectors == { <<>>, << <<1>>, <<2, 3>> >> }
AddedEntries == { <<>>, <<9>> }

\* Arc::new(v): a fresh allocation holding v with one strong reference
ArcNew(heap, v) == Append(heap, [strong |-> 1, vec |-> v])
\* Arc::clone / drop of a reference to allocation a
ArcClone(heap, a) == [heap EXCEPT ![a].strong = @ + 1]
ArcDrop(heap, a) == [heap EXCEPT ![a].strong = @ - 1]

\* Arc::make_mut on the reference a: <<heap, reference>> after it; the vector
\* is cloned into a fresh allocation when a is shared
make_mut_in_place(heap, a) == <<heap, a>>
make_mut(heap, a) ==
    IF heap[a].strong = 1 THEN <<heap, a>>
    ELSE <<ArcNew(ArcDrop(heap, a), heap[a].vec), Len(heap) + 1>>

\* MutationEngine::set_corpus(shared.clone()) with a vector the caller holds
\* in a new Arc: the engine's old reference is dropped
SetCorpus ==
    /\ Len(holders) < MaxHolders
    /\ Len(arcs) < MaxArcs
    /\ \E v \in SharedVectors :
         LET h1 == ArcNew(arcs, v)
             a == Len(h1)
         IN /\ arcs' = ArcDrop(ArcClone(h1, a), me_corpus)
            /\ me_corpus' = a
            /\ holders' = Append(holders, [arc |-> a, seen |-> v])
            /\ base' = v
    /\ added' = <<>>
    /\ UNCHANGED <<engine_vars, load_vars, worker_vars, ni_vars, lib_vars>>

\* a holder of a reference to the engine's current allocation clones it
\* (assert_eq!(mutator.corpus, corpus) style readers, other engines)
CloneCorpus ==
    /\ Len(holders) < MaxHolders
    /\ arcs' = ArcClone(arcs, me_corpus)
    /\ holders' = Append(holders, [arc |-> me_corpus, seen |-> arcs[me_corpus].vec])
    /\ UNCHANGED <<me_corpus, added, base>>
    /\ UNCHANGED <<engine_vars, load_vars, worker_vars, ni_vars, lib_vars>>

\* a holder drops its reference
DropHolder ==
    /\ \E k \in 1..Len(holders) :
         /\ arcs' = ArcDrop(arcs, holders[k].arc)
         /\ holders' = SubSeq(holders, 1, k - 1) \o SubSeq(holders, k + 1, Len(holders))
    /\ UNCHANGED <<me_corpus, added, base>>
    /\ UNCHANGED <<engine_vars, load_vars, worker_vars, ni_vars, lib_vars>>

\* MutationEngine::add_to_corpus
add_to_corpus ==
    /\ Len(added) < MaxAdded
    /\ \E test_case_ \in AddedEntries :
         LET mm == make_mut(arcs, me_corpus) IN
         /\ Len(mm[1]) <= MaxArcs
         /\ arcs' = [mm[1] EXCEPT ![mm[2]].vec = Append(@, test_case_)]
         /\ me_corpus' = mm[2]
         /\ added' = Append(added, test_case_)
    /\ UNCHANGED <<holders, base>>
    /\ UNCHANGED <<engine_vars, load_vars, worker_vars, ni_vars, lib_vars>>

\* MutationEngine::default: Arc::new(Vec::new()), then add_to_corpus(initial_tc)
InitArc ==
    /\ arcs = << [strong |-> 1, vec |-> << <<7>> >>] >>
    /\ me_corpus = 1
    /\ holders = <<>>
    /\ added = << <<7>> >>
    /\ base = <<>>
    /\ corpus = <<>> /\ cfg = "none" /\ EngineIdle
    /\ LoadIdle /\ WorkerIdle /\ NiIdle /\ LibIdle

NextArc ==
    \/ SetCorpus
    \/ CloneCorpus
    \/ DropHolder
    \/ add_to_corpus

SpecArc == InitArc /\ [][NextArc]_vars

\* C7: whatever add_to_corpus is called with, the vector behind every other
\* holder's reference is the one it cloned, and the engine's corpus is the
\* content given to set_corpus followed by the added entries in call order.
C7_SharedCorpusUntouched ==
    /\ \A k \in 1..Len(holders) : arcs[holders[k].arc].vec = holders[k].seen
    /\ arcs[me_corpus].vec = base \o added

\* C7 witness: two entries were added after set_corpus while a holder still
\* has the shared vector, which has fewer entries than the engine's corpus.
C7_Witness ==
    /\ Len(added) >= 2
    /\ base # <<>>
    /\ \E k \in 1..Len(holders) :
         /\ holders[k].seen = base
         /\ holders[k].arc # me_corpus
         /\ arcs[holders[k].arc].strong = 1

(***************************************************************************)
(* The parallel Ni variants (custom_mutators/ni/src/lib.rs): the input is  *)
(* cut in chunks, rayon maps every chunk to a local output on a clone of   *)
(* the PRNG and each local output is written to the sink under a mutex.    *)
(***************************************************************************)
\* rayon::current_num_threads(): a property of the machine
Threads == {2, 3}
\* the inputs: 256 and 257 bytes take the parallel branch, 3 bytes do not
ParData == { [i \in 1..256 |-> i - 1], [i \in 1..257 |-> (i - 1) % 256], <<1, 2, 3>> }
\* the states of the PRNG handed in, as the draws its clones will make
ParDraws == { d \in Draws : d.r \in 0..2 /\ d.x = 130 /\ d.y = 1 /\ d.b = 254 }

\* slice::par_chunks(chunk_size): the chunks in input order, the last one shorter
RECURSIVE par_chunks(_, _)
par_chunks(data, chunk_size) ==
    IF Len(data) = 0 THEN <<>>
    ELSE IF Len(data) <= chunk_size THEN <<data>>
    ELSE <<Upto(data, chunk_size)>> \o par_chunks(From(data, chunk_size), chunk_size)

\* the chunks a rayon worker has mapped and not yet written
InFlight == { k \in 1..Len(par.chunks) : par.st[k] \in {"mapped", "locked"} }

\* ni_area_parallel / ni_area_parallel_hybrid, `if n == 1 || len < 256`:
\* mutate_area writes to out directly
ParDirect ==
    /\ par.pc = "start"
    /\ par.n = 1 \/ Len(par.data) < 256
    /\ par' = [par EXCEPT !.out = mutate_area_by(par.data, par.draw), !.pc = "done"]
    /\ UNCHANGED <<engine_vars, arc_vars, load_vars, worker_vars, lib_vars>>

\* the else branch up to par_chunks: chunk_size = len / num_threads
ParSplit ==
    /\ par.pc = "start"
    /\ ~(par.n = 1 \/ Len(par.data) < 256)
    /\ LET chunk_size == Len(par.data) \div par.num_threads
           chunks == par_chunks(par.data, chunk_size)
       IN par' = [par EXCEPT !.chunks = chunks,
                             !.st = [k \in 1..Len(chunks) |-> "todo"],
                             !.local_out = [k \in 1..Len(chunks) |-> <<>>],
                             !.pc = "running"]
    /\ UNCHANGED <<engine_vars, arc_vars, load_vars, worker_vars, lib_vars>>

\* the map closure on chunk k, run by a free rayon worker: local_prng is a
\* clone of prng, the child (ni_area_parallel or ni_area with n / num_threads)
\* sees fewer than 256 bytes and fills local_out through mutate_area
ParMap(k) ==
    /\ par.pc = "running"
    /\ par.st[k] = "todo"
    /\ Cardinality(InFlight) < par.num_threads
    /\ Len(par.chunks[k]) < 256
    /\ par' = [par EXCEPT !.local_out[k] =
                              ni_area_by(par.chunks[k], par.n \div par.num_threads, par.draw),
                          !.st[k] = "mapped"]
    /\ UNCHANGED <<engine_vars, arc_vars, load_vars, worker_vars, lib_vars>>

\* the for_each_with closure on chunk k: out_mutex.lock()
ParLock(k) ==
    /\ par.pc = "running"
    /\ par.st[k] = "mapped"
    /\ par.lock = 0
    /\ par' = [par EXCEPT !.lock = k, !.st[k] = "locked"]
    /\ UNCHANGED <<engine_vars, arc_vars, load_vars, worker_vars, lib_vars>>

\* out.write_all(&local_out), and the guard is dropped
ParWrite(k) ==
    /\ par.pc = "running"
    /\ par.st[k] = "locked"
    /\ par.lock = k
    /\ par' = [par EXCEPT !.out = par.out \o par.local_out[k],
                          !.lock = 0, !.st[k] = "written"]
    /\ UNCHANGED <<engine_vars, arc_vars, load_vars, worker_vars, lib_vars>>

\* for_each_with returns when every chunk has been written
ParJoin ==
    /\ par.pc = "running"
    /\ \A k \in 1..Len(par.chunks) : par.st[k] = "written"
    /\ par' = [par EXCEPT !.pc = "done"]
    /\ UNCHANGED <<engine_vars, arc_vars, load_vars, worker_vars, lib_vars>>

ParMapSome == \E k \in 1..Len(par.chunks) : ParMap(k)
ParLockSome == \E k \in 1..Len(par.chunks) : ParLock(k)
ParWriteSome == \E k \in 1..Len(par.chunks) : ParWrite(k)

InitPar ==
    /\ corpus = <<>> /\ cfg = "none" /\ EngineIdle /\ ArcIdle /\ LoadIdle /\ WorkerIdle /\ LibIdle
    /\ par \in [variant : {"ni_area_parallel", "ni_area_parallel_hybrid"},
                data : ParData, n : {1, 2, 6}, num_threads : Threads,
                draw : ParDraws, chunks : {<<>>}, st : {<<>>}, local_out : {<<>>},
                lock : {0}, out : {<<>>}, pc : {"start"}]

NextPar ==
    \/ ParDirect
    \/ ParSplit
    \/ ParMapSome
    \/ ParLockSome
    \/ ParWriteSome
    \/ ParJoin

SpecPar == InitPar /\ [][NextPar]_vars

\* the local outputs one after the other, in the order of their chunks
RECURSIVE InChunkOrder(_)
InChunkOrder(outs) ==
    IF Len(outs) = 0 THEN <<>> ELSE outs[1] \o InChunkOrder(Tail(outs))

\* C8: when a parallel Ni variant returns, the sink holds the per-chunk
\* outputs in the order the chunks occur in the input, whatever the
\* interleaving of the rayon workers was
C8_MergedInChunkOrder ==
    (par.pc = "done" /\ Len(par.chunks) > 0) => par.out = InChunkOrder(par.local_out)

(***************************************************************************)
(* load_corpus_from_disk (executor/src/lib.rs): the path given as corpus   *)
(* directory is a directory, a single file, or nothing.                    *)
(***************************************************************************)
\* what a directory entry can be: a regular file with its bytes (readable or
\* not), or a sub-directory
DirEntries ==
    { [kind |-> "file", readable |-> TRUE, bytes |-> <<>>],
      [kind |-> "file", readable |-> TRUE, bytes |-> <<65>>],
      [kind |-> "file", readable |-> TRUE, bytes |-> <<66, 67>>],
      [kind |-> "file", readable |-> FALSE, bytes |-> <<68>>],
      [kind |-> "dir", readable |-> TRUE, bytes |-> <<>>] }
\* the paths followed: directories of up to MaxDirEntries entries, single
\* files, and a path that does not exist
Disks ==
    { [kind |-> "dir", entries |-> e, file |-> <<>>]
        : e \in UNION { [1..n -> DirEntries] : n \in 0..MaxDirEntries } }
    \cup { [kind |-> "file", entries |-> <<>>, file |-> <<f>>]
             : f \in { d \in DirEntries : d.kind = "file" } }
    \cup { [kind |-> "missing", entries |-> <<>>, file |-> <<>>] }

\* the order of Vec<u8> in a BTreeSet
RECURSIVE lex_less(_, _)
lex_less(a, b) ==
    IF Len(b) = 0 THEN FALSE
    ELSE IF Len(a) = 0 THEN TRUE
    ELSE IF a[1] # b[1] THEN a[1] < b[1]
    ELSE lex_less(Tail(a), Tail(b))

\* BTreeSet::into_iter().collect(): the elements in ascending order
RECURSIVE into_iter(_)
into_iter(set) ==
    IF set = {} THEN <<>>
    ELSE LET m == CHOOSE x \in set : \A y \in set \ {x} : lex_less(x, y)
         IN <<m>> \o into_iter(set \ {m})

\* std::fs::read(path).map(|tc| corpus.insert(tc)): the bytes of a file that
\* can be read, nothing on an error
fs_read(f) == IF f.readable THEN {f.bytes} ELSE {}

\* the entries for which the closure handed to Iterator::map runs. The adapter
\* `dir.map(..)` is lazy and the value of read_dir(..).map(..) is dropped by
\* `let _ =` without one call of next(): the closure runs for no entry
visited(entries) == {}

\* load_corpus_from_disk(p)
load_corpus_from_disk(p) ==
    LET corpus0 ==
            IF p.kind = "dir"
            THEN UNION { IF p.entries[k].kind = "file" THEN fs_read(p.entries[k]) ELSE {}
                         : k \in visited(p.entries) }
            ELSE IF p.kind = "file" THEN fs_read(p.file[1])
            ELSE {}
         retained == { x \in corpus0 : Len(x) # 0 }
    IN into_iter(retained)

\* worker: `let corpus = load_corpus_from_disk(&fconfig.corpus_dir)`
Load ==
    /\ ~loaded.done
    /\ loaded' = [done |-> TRUE, corpus |-> load_corpus_from_disk(disk)]
    /\ UNCHANGED <<disk, engine_vars, arc_vars, worker_vars, ni_vars, lib_vars>>

InitLoad ==
    /\ corpus = <<>> /\ cfg = "none" /\ EngineIdle /\ ArcIdle /\ WorkerIdle /\ NiIdle /\ LibIdle
    /\ disk \in Disks
    /\ loaded = [done |-> FALSE, corpus |-> <<>>]

NextLoad ==
    \/ Load

SpecLoad == InitLoad /\ [][NextLoad]_vars

\* the non-empty contents of the readable regular files of a directory
FileContents(p) ==
    { p.entries[k].bytes : k \in { j \in 1..Len(p.entries) :
                                    /\ p.entries[j].kind = "file"
                                    /\ p.entries[j].readable
                                    /\ Len(p.entries[j].bytes) # 0 } }

\* C9: load_corpus_from_disk on a directory returns exactly the distinct
\* non-empty contents of its regular files: every one of them is an entry,
\* no entry occurs twice, and no entry is empty
C9_DirectoryLoaded ==
    (loaded.done /\ disk.kind = "dir") =>
        /\ { loaded.corpus[i] : i \in 1..Len(loaded.corpus) } = FileContents(disk)
        /\ Len(loaded.corpus) = Cardinality(FileContents(disk))

(***************************************************************************)
(* The typed consumers of TestCase (test_case/src/lib.rs). A consumer call *)
(* yields [res, val, tc, lo, hi]: its Result ("Ok"/"Err") or "Panic", the  *)
(* value returned, the test case it leaves, and the bytes data[lo..hi] of  *)
(* memory it read.                                                         *)
(***************************************************************************)
Out(res, val, tc, lo, hi) == [res |-> res, val |-> val, tc |-> tc, lo |-> lo, hi |-> hi]

\* TestCase::is_size_sane: Ok(()) or Err("Not enough data left to fullfil request")
is_size_sane(tc, requested) == ~(requested + tc.data_ptr > tc.size)

\* TestCase::_get_max: is_size_sane(len)?, then len.min(size - data_ptr)
_get_max(tc, len) ==
    IF is_size_sane(tc, len) THEN [ok |-> TRUE, max |-> Min(len, tc.size - tc.data_ptr)]
    ELSE [ok |-> FALSE, max |-> 0]

\* TestCase::consume_byte
consume_byte(tc) ==
    IF ~_get_max(tc, 1).ok THEN Out("Err", 0, tc, tc.data_ptr, tc.data_ptr)
    ELSE IF tc.data_ptr >= Len(tc.data) THEN Out("Panic", 0, tc, tc.data_ptr, tc.data_ptr)
    ELSE Out("Ok", At(tc.data, tc.data_ptr), [tc EXCEPT !.data_ptr = @ + 1],
             tc.data_ptr, tc.data_ptr + 1)

\* TestCase::consume_bool
consume_bool(tc) ==
    IF ~_get_max(tc, 1).ok THEN Out("Err", FALSE, tc, tc.data_ptr, tc.data_ptr)
    ELSE LET as_bool(byte) ==
                 IF byte.res = "Ok" THEN [byte EXCEPT !.val = (byte.val % 2 = 1)]
                 ELSE [byte EXCEPT !.val = FALSE]
         IN as_bool(consume_byte(tc))

\* the loops of consume_bytes and consume_booleans: slot by slot, the value of
\* a consume_byte / consume_bool that is Ok, the initial value otherwise
RECURSIVE fill_from(_, _, _, _)
fill_from(tc, n, bools, acc) ==
    IF n = 0 THEN <<acc, tc>>
    ELSE LET init == IF bools THEN FALSE ELSE 0
             next(one) == fill_from(one.tc, n - 1, bools,
                                    Append(acc, IF one.res = "Ok" THEN one.val ELSE init))
         IN next(IF bools THEN consume_bool(tc) ELSE consume_byte(tc))

\* TestCase::consume_bytes
consume_bytes(tc, num) ==
    LET max == _get_max(tc, num) IN
    IF ~max.ok THEN Out("Err", <<>>, tc, tc.data_ptr, tc.data_ptr)
    ELSE LET filled(f) == Out("Ok", f[1], f[2], tc.data_ptr, f[2].data_ptr)
         IN filled(fill_from(tc, max.max, FALSE, <<>>))

\* TestCase::consume_booleans
consume_booleans(tc, num) ==
    LET max == _get_max(tc, num) IN
    IF ~max.ok THEN Out("Err", <<>>, tc, tc.data_ptr, tc.data_ptr)
    ELSE LET filled(f) == Out("Ok", f[1], f[2], tc.data_ptr, f[2].data_ptr)
         IN filled(fill_from(tc, max.max, TRUE, <<>>))

\* TestCase::consume_remaining_as_bytes
consume_remaining_as_bytes(tc) == consume_bytes(tc, tc.size - tc.data_ptr)

\* String::from_utf8_lossy on bytes below 0xE0: ASCII as it is, a two-byte
\* sequence (lead 0xC2..0xDF, continuation 0x80..0xBF) as its code point, any
\* other byte as U+FFFD; the string as its sequence of code points
RECURSIVE from_utf8_lossy(_)
from_utf8_lossy(bytes) ==
    IF Len(bytes) = 0 THEN <<>>
    ELSE IF bytes[1] < 128 THEN <<bytes[1]>> \o from_utf8_lossy(Tail(bytes))
    ELSE IF /\ bytes[1] \in 194..223 /\ Len(bytes) >= 2 /\ bytes[2] \in 128..191
         THEN <<(bytes[1] - 192) * 64 + (bytes[2] - 128)>> \o from_utf8_lossy(Tail(Tail(bytes)))
    ELSE <<65533>> \o from_utf8_lossy(Tail(bytes))

\* String::from_utf16_lossy: a surrogate pair as its code point, a lone
\* surrogate as U+FFFD, any other unit as it is
RECURSIVE from_utf16_lossy(_)
from_utf16_lossy(units) ==
    IF Len(units) = 0 THEN <<>>
    ELSE IF /\ units[1] \in 55296..56319 /\ Len(units) >= 2 /\ units[2] \in 56320..57343
         THEN <<65536 + (units[1] - 55296) * 1024 + (units[2] - 56320)>>
              \o from_utf16_lossy(Tail(Tail(units)))
    ELSE IF units[1] \in 55296..57343 THEN <<65533>> \o from_utf16_lossy(Tail(units))
    ELSE <<units[1]>> \o from_utf16_lossy(Tail(units))

\* the values a byte of memory at index i can be read as: the byte of data
\* inside the vector, anything outside of it
mem_byte(tc, i) == IF i < Len(tc.data) THEN {At(tc.data, i)} ELSE {0, 255}

\* slice::from_raw_parts(slice.as_ptr().cast::<u16>(), end): `end` u16 values
\* in native (little-endian) order from the 2 * end bytes at data_ptr
RECURSIVE raw_u16s(_, _, _)
raw_u16s(tc, at, n) ==
    IF n = 0 THEN {<<>>}
    ELSE { <<lo + 256 * hi>> \o rest :
             lo \in mem_byte(tc, at), hi \in mem_byte(tc, at + 1),
             rest \in raw_u16s(tc, at + 2, n - 1) }

Encodings == {"UTF8", "UTF8ASCII", "UTF16"}

\* TestCase::consume_str: the outcomes of a call
consume_str(tc, len, encoding) ==
    LET max == IF encoding = "UTF16" THEN _get_max(tc, len * 2) ELSE _get_max(tc, len)
        end == max.max
        p == tc.data_ptr
    IN IF ~max.ok THEN {Out("Err", <<>>, tc, p, p)}
       ELSE IF p + end > Len(tc.data) THEN {Out("Panic", <<>>, tc, p, p)}
       ELSE LET after == [tc EXCEPT !.data_ptr = @ + end] IN
            CASE encoding = "UTF8" ->
                   {Out("Ok", from_utf8_lossy(Slice(tc.data, p, p + end)), after, p, p + end)}
              [] encoding = "UTF8ASCII" ->
                   {Out("Ok", from_utf8_lossy([i \in 1..end |->
                                  (((tc.data[p + i] - 32) % 256) % 95) + 32]),
                        after, p, p + end)}
              [] encoding = "UTF16" ->
                   { Out("Ok", from_utf16_lossy(u), after, p, p + 2 * end)
                       : u \in raw_u16s(tc, p, end) }

\* TestCase::consume_remaining_as_str
consume_remaining_as_str(tc, encoding) == consume_str(tc, tc.size - tc.data_ptr, encoding)

\* the integer types T followed: u8, i8, u16, i16 as [bytes, signed]
IntTypes == [bytes : {1, 2}, signed : BOOLEAN]
\* T::min_value(), T::max_value()
min_value(T) == IF T.signed THEN -Pow2(8 * T.bytes - 1) ELSE 0
max_value(T) == IF T.signed THEN Pow2(8 * T.bytes - 1) - 1 ELSE Pow2(8 * T.bytes) - 1
\* whether x is a value of T, and the value of T a wrapping operation leaves
fits(T, x) == min_value(T) <= x /\ x <= max_value(T)
wrap(T, x) ==
    LET m == x % Pow2(8 * T.bytes) IN
    IF T.signed /\ m > max_value(T) THEN m - Pow2(8 * T.bytes) ELSE m

\* uN::from_le_bytes / uN::from_be_bytes
RECURSIVE from_le_bytes(_)
from_le_bytes(vals) ==
    IF Len(vals) = 0 THEN 0 ELSE vals[1] + 256 * from_le_bytes(Tail(vals))
from_be_bytes(vals) == from_le_bytes(Reverse(vals))

\* TestCase::_consume_int_u::<T>, bytes = size_of::<T>()
_consume_int_u(tc, bytes, is_little_endian) ==
    LET value(vals) ==
            IF vals.res # "Ok" THEN [vals EXCEPT !.val = 0]
            ELSE IF Len(vals.val) # bytes THEN [vals EXCEPT !.res = "Panic", !.val = 0]
            ELSE [vals EXCEPT !.val = IF is_little_endian THEN from_le_bytes(vals.val)
                                       ELSE from_be_bytes(vals.val)]
    IN value(consume_bytes(tc, bytes))

\* TestCase::_consume_int_s::<T>: the unsigned value modulo 2^(bits-1) - 1
_consume_int_s(tc, bytes, is_little_endian) ==
    LET max_val == Pow2(bytes * 8 - 1) - 1
        reduced(ret) == IF ret.res # "Ok" THEN ret ELSE [ret EXCEPT !.val = ret.val % max_val]
    IN reduced(_consume_int_u(tc, bytes, is_little_endian))

\* TestCase::consume_int::<T>
consume_int(tc, T, is_little_endian) ==
    IF min_value(T) < 0 THEN _consume_int_s(tc, T.bytes, is_little_endian)
    ELSE _consume_int_u(tc, T.bytes, is_little_endian)

\* the loop of consume_ints: n times consume_int, an Err leaves the slot 0
RECURSIVE ints_loop(_, _, _, _, _)
ints_loop(tc, T, le, n, acc) ==
    IF n = 0 THEN Out("Ok", acc, tc, tc.data_ptr, tc.data_ptr)
    ELSE LET next(one) ==
                 IF one.res = "Panic" THEN one
                 ELSE ints_loop(one.tc, T, le, n - 1,
                                Append(acc, IF one.res = "Ok" THEN one.val ELSE 0))
         IN next(consume_int(tc, T, le))

\* TestCase::consume_ints::<T>
consume_ints(tc, T, is_little_endian, num) ==
    LET got == _get_max(tc, T.bytes * num) IN
    IF ~got.ok THEN Out("Err", <<>>, tc, tc.data_ptr, tc.data_ptr)
    ELSE [ints_loop(tc, T, is_little_endian, Min(num, got.max), <<>>)
            EXCEPT !.lo = tc.data_ptr]

\* a reduction that leaves the drawn value as it is
rem_none(a, b) == a
\* T::rem_euclid for a non-zero divisor
rem_euclid(a, b) == a % (IF b < 0 THEN -b ELSE b)

\* `a + b` on T: the sum when it is a value of T; otherwise a panic where
\* overflow is checked and the wrapped sum where it is not
checked_add(T, a, b) ==
    IF fits(T, a + b) THEN {[ok |-> TRUE, v |-> a + b]}
    ELSE {[ok |-> FALSE, v |-> 0], [ok |-> TRUE, v |-> wrap(T, a + b)]}

\* TestCase::consume_int_range::<T>: the outcomes of a call
consume_int_range(tc, T, is_little_endian, min, max) ==
    LET p == tc.data_ptr IN
    IF max = min THEN {Out("Ok", min, tc, p, p)}
    ELSE IF ~(min < max) THEN {Out("Panic", 0, tc, p, p)}
    ELSE
    LET range == wrap(T, max - min)
        whole == IF T.signed
                 THEN range = max_value(T) \/ range = wrap(T, max_value(T) - min_value(T))
                 ELSE range = max_value(T)
    IN UNION {
         IF drawn.res # "Ok" THEN {drawn}
         ELSE UNION {
              IF ~divisor.ok \/ (~whole /\ divisor.v = 0)
              THEN {[drawn EXCEPT !.res = "Panic", !.val = 0]}
              ELSE { IF sum.ok THEN [drawn EXCEPT !.val = sum.v]
                     ELSE [drawn EXCEPT !.res = "Panic", !.val = 0]
                     : sum \in checked_add(T, min, IF whole THEN drawn.val
                                                    ELSE rem_euclid(drawn.val, divisor.v)) }
              : divisor \in IF whole THEN {[ok |-> TRUE, v |-> 1]}
                            ELSE checked_add(T, range, 1) }
         : drawn \in { IF T.signed THEN _consume_int_s(tc, T.bytes, is_little_endian)
                       ELSE _consume_int_u(tc, T.bytes, is_little_endian) } }

\* the loop of consume_ints_range: n times consume_int_range, an Err leaves 0
RECURSIVE ints_range_loop(_, _, _, _, _, _, _)
ints_range_loop(tc, T, le, min, max, n, acc) ==
    IF n = 0 THEN {Out("Ok", acc, tc, tc.data_ptr, tc.data_ptr)}
    ELSE UNION { IF one.res = "Panic" THEN {one}
                 ELSE ints_range_loop(one.tc, T, le, min, max, n - 1,
                                      Append(acc, IF one.res = "Ok" THEN one.val ELSE 0))
                 : one \in consume_int_range(tc, T, le, min, max) }

\* TestCase::consume_ints_range::<T>
consume_ints_range(tc, T, is_little_endian, num, min, max) ==
    LET got == _get_max(tc, T.bytes * num) IN
    IF ~got.ok THEN {Out("Err", <<>>, tc, tc.data_ptr, tc.data_ptr)}
    ELSE { [o EXCEPT !.lo = tc.data_ptr]
             : o \in ints_range_loop(tc, T, is_little_endian, min, max,
                                     Min(num, got.max), <<>>) }

\* TestCase::consume_float: the f64 as the little-endian bytes of its bits
consume_float(tc) ==
    LET p == tc.data_ptr IN
    IF p = tc.size THEN Out("Ok", Repeat(0, 8), tc, p, p)
    ELSE IF p + 8 > tc.size
    THEN IF tc.size > Len(tc.data) \/ p > tc.size THEN Out("Panic", <<>>, tc, p, p)
         ELSE LET data_slice == Slice(tc.data, p, tc.size)
                  cdata == data_slice \o Repeat(0, 8 - Len(data_slice))
              IN Out("Ok", Reverse(cdata), [tc EXCEPT !.data_ptr = tc.size], p, tc.size)
    ELSE IF p + 8 > Len(tc.data) THEN Out("Panic", <<>>, tc, p, p)
    ELSE Out("Ok", Slice(tc.data, p, p + 8), [tc EXCEPT !.data_ptr = @ + 8], p, p + 8)

(***************************************************************************)
(* A fuzz harness consuming from a TestCase made with TestCase::new.       *)
(***************************************************************************)
\* a request asks for at most MaxNum elements
MaxNum == 3
\* the buffers handed to TestCase::new
HarnessData ==
    { <<>>, <<255>>, <<200, 128>>, <<1, 0, 65>>, <<138, 25, 13, 68>>,
      <<255, 127, 128, 0, 1, 254, 200, 128, 65>> }
\* the <<min, max>> given to consume_int_range::<T>: ranges of every width up
\* to the whole of T, an empty one, and one with min > max
Limits(T) ==
    { <<min_value(T), max_value(T)>>, <<min_value(T), max_value(T) - 1>>,
      <<0, max_value(T)>>, <<0, 100>>, <<0, 0>>, <<max_value(T), min_value(T)>> }
    \cup (IF T.signed THEN { <<-100, 100>>, <<min_value(T), 0>> } ELSE { <<1, 200>> })
\* and to consume_ints_range::<T>
FewLimits(T) == { <<min_value(T), max_value(T)>>, <<0, 100>> }

\* the arguments of a call, those a consumer does not take left at NoArgs
NoArgs ==
    [num |-> 0, encoding |-> "none", T |-> [bytes |-> 1, signed |-> FALSE],
     le |-> FALSE, min |-> 0, max |-> 0]
NoCall ==
    [op |-> "none", args |-> NoArgs, res |-> "none", val |-> <<>>,
     before |-> TestCaseNew(<<>>), lo |-> 0, hi |-> 0]

\* the harness calls a consumer with args and this is its outcome
Called(op, args, o) ==
    /\ call.res # "Panic"
    /\ harness' = o.tc
    /\ call' = [op |-> op, args |-> args, res |-> o.res, val |-> o.val,
                before |-> harness, lo |-> o.lo, hi |-> o.hi]
    /\ UNCHANGED <<engine_vars, arc_vars, load_vars, worker_vars, ni_vars, run_vars, grammar_vars, prng_vars>>

ConsumeBool ==
    /\ Called("consume_bool", NoArgs, consume_bool(harness))
ConsumeByte ==
    /\ Called("consume_byte", NoArgs, consume_byte(harness))
ConsumeBooleans ==
    \E num \in 0..MaxNum :
        \E o \in { consume_booleans(harness, num) } :
            Called("consume_booleans", [NoArgs EXCEPT !.num = num], o)
ConsumeBytes ==
    \E num \in 0..MaxNum :
        \E o \in { consume_bytes(harness, num) } :
            Called("consume_bytes", [NoArgs EXCEPT !.num = num], o)
ConsumeRemainingAsBytes ==
    /\ Called("consume_remaining_as_bytes", NoArgs, consume_remaining_as_bytes(harness))
ConsumeStr ==
    \E len \in 0..MaxNum, e \in Encodings :
        \E o \in consume_str(harness, len, e) :
            Called("consume_str", [NoArgs EXCEPT !.num = len, !.encoding = e], o)
ConsumeRemainingAsStr ==
    \E e \in Encodings :
        \E o \in consume_remaining_as_str(harness, e) :
            Called("consume_remaining_as_str", [NoArgs EXCEPT !.encoding = e], o)
ConsumeInt ==
    \E T \in IntTypes, le \in BOOLEAN :
        \E o \in { consume_int(harness, T, le) } :
            Called("consume_int", [NoArgs EXCEPT !.T = T, !.le = le], o)
ConsumeInts ==
    \E T \in IntTypes, le \in BOOLEAN, num \in 0..MaxNum :
        \E o \in { consume_ints(harness, T, le, num) } :
            Called("consume_ints", [NoArgs EXCEPT !.T = T, !.le = le, !.num = num], o)
ConsumeIntRange ==
    \E T \in IntTypes, le \in BOOLEAN :
        \E lim \in Limits(T) :
            \E o \in consume_int_range(harness, T, le, lim[1], lim[2]) :
                Called("consume_int_range",
                       [NoArgs EXCEPT !.T = T, !.le = le, !.min = lim[1], !.max = lim[2]], o)
ConsumeIntsRange ==
    \E T \in IntTypes, le \in BOOLEAN, num \in 1..MaxNum - 1 :
        \E lim \in FewLimits(T) :
            \E o \in consume_ints_range(harness, T, le, num, lim[1], lim[2]) :
                Called("consume_ints_range",
                       [NoArgs EXCEPT !.T = T, !.le = le, !.num = num,
                                      !.min = lim[1], !.max = lim[2]], o)
ConsumeFloat ==
    /\ Called("consume_float", NoArgs, consume_float(harness))

InitConsume ==
    /\ corpus = <<>> /\ cfg = "none" /\ EngineIdle
    /\ ArcIdle /\ LoadIdle /\ WorkerIdle /\ NiIdle /\ GrammarIdle /\ PrngIdle /\ RunIdle
    /\ harness \in { TestCaseNew(d) : d \in HarnessData }
    /\ call = NoCall

NextConsume ==
    \/ ConsumeBool
    \/ ConsumeByte
    \/ ConsumeBooleans
    \/ ConsumeBytes
    \/ ConsumeRemainingAsBytes
    \/ ConsumeStr
    \/ ConsumeRemainingAsStr
    \/ ConsumeInt
    \/ ConsumeInts
    \/ ConsumeIntRange
    \/ ConsumeIntsRange
    \/ ConsumeFloat

SpecConsume == InitConsume /\ [][NextConsume]_vars

\* the bytes left to a call: size - data_ptr of the test case it was made on
Remaining == call.before.size - call.before.data_ptr

\* C11: consume_int_range::<T>(le, min, max) with min <= max on a buffer with
\* at least size_of(T) bytes left returns Ok(v) with min <= v <= max, no
\* arithmetic step overflowing; with min = max it returns min.
C11_IntRangeWithinLimits ==
    (/\ call.op = "consume_int_range"
     /\ call.args.min <= call.args.max
     /\ Remaining >= call.args.T.bytes)
        => /\ call.res = "Ok"
           /\ call.args.min <= call.val /\ call.val <= call.args.max
           /\ (call.args.min = call.args.max => call.val = call.args.min)

\* C11 witness: a range wider than T::max_value() (i8 -100..100, whose width
\* wraps to a negative number) was reduced into, on a buffer of two bytes.
C11_Witness ==
    /\ call.op = "consume_int_range"
    /\ call.args.T = [bytes |-> 1, signed |-> TRUE]
    /\ call.args.min = -100 /\ call.args.max = 100
    /\ call.res = "Ok"
    /\ call.val > -100
    /\ harness.data_ptr = 2

\* C12: whatever consume_* calls were made, the cursor is within 0..size and
\* the latest call read no byte outside data[0..size].
C12_CursorAndReadsInBounds ==
    /\ 0 <= harness.data_ptr /\ harness.data_ptr <= harness.size
    /\ 0 <= call.lo /\ call.hi <= harness.size

\* C13: a consumer of a sequence clamps the request to the bytes left and
\* advances the cursor by what it consumed: consume_bytes(n) with n above the
\* r bytes left returns those r bytes and leaves the cursor at size.
C13_BytesClampedToRemaining ==
    (call.op = "consume_bytes" /\ call.args.num > Remaining)
        => /\ call.res = "Ok"
           /\ call.val = Slice(call.before.data, call.before.data_ptr, call.before.size)
           /\ harness.data_ptr = harness.size

(***************************************************************************)
(* Grammar (custom_mutators/grammar_mutator/src/lib.rs): the token table   *)
(* Grammar::new builds from a JSON grammar, optimize() and generate().     *)
(* A Token is [kind, ids, bytes]; a TokenIdentifier is a 0-based index.    *)
(***************************************************************************)
NonTerminal(ids) == [kind |-> "NonTerminal", ids |-> ids, bytes |-> <<>>]
OrderedExpansion(ids) == [kind |-> "OrderedExpansion", ids |-> ids, bytes |-> <<>>]
Terminal(bytes) == [kind |-> "Terminal", ids |-> <<>>, bytes |-> bytes]
Nop == [kind |-> "Nop", ids |-> <<>>, bytes |-> <<>>]

\* str::as_bytes of the terminal strings the grammars below use
as_bytes(token) ==
    CASE token = "a" -> <<97>>
      [] token = "b" -> <<98>>
      [] token = "[" -> <<91>>
      [] token = "]" -> <<93>>
      [] token = "" -> <<>>
      [] OTHER -> <<63>>

\* a SerializedJsonGrammar: the rules of the BTreeMap in key order, each
\* [name, values] with values the alternatives, each a sequence of strings
Rule(name, values) == [name |-> name, values |-> values]
JsonGrammars ==
    { <<Rule("<start>", << <<>> >>)>>,
      <<Rule("<start>", << <<"a", "b">> >>)>>,
      <<Rule("<start>", << <<"a", "<start>">>, <<"b">> >>)>>,
      <<Rule("<start>", << <<"a", "<start>">> >>)>>,
      <<Rule("<start>", << <<"<start>">> >>)>>,
      <<Rule("<b>", << <<>> >>), Rule("<start>", << <<"<b>", "<b>">>, <<"a", "b">> >>)>>,
      <<Rule("<b>", << <<>> >>), Rule("<start>", << <<"<b>", "<b>">> >>)>>,
      <<Rule("<a>", << <<"a">>, <<"b">> >>), Rule("<l>", << <<"[", "<a>", "]">> >>),
        Rule("<start>", << <<"<l>">>, <<"<a>", "<e>">> >>)>>,
      <<Rule("<e>", <<>>), Rule("<start>", << <<"a">>, <<"<e>">> >>)>>,
      <<Rule("<e>", << <<>> >>), Rule("<f>", << <<"<e>">> >>),
        Rule("<g>", << <<"<e>", "<f>">> >>), Rule("<start>", << <<"<g>", "a">> >>)>>,
      <<Rule("<a>", << <<"a">> >>)>> }

\* g.token_map.get(token): the identifier stage one gave the rule of that name
in_token_map(sjg, token) == \E i \in 1..Len(sjg) : sjg[i].name = token
token_map(sjg, token) == (CHOOSE i \in 1..Len(sjg) : sjg[i].name = token) - 1

\* Grammar::new, `val.iter().map(..).collect()`: one token allocated per
\* string of an alternative, from string k on; <<tokens, identifiers>>
RECURSIVE expansion_tokens(_, _, _, _, _)
expansion_tokens(tokens, sjg, val, k, ids) ==
    IF k > Len(val) THEN <<tokens, ids>>
    ELSE expansion_tokens(
             Append(tokens, IF in_token_map(sjg, val[k])
                            THEN NonTerminal(<<token_map(sjg, val[k])>>)
                            ELSE Terminal(as_bytes(val[k]))),
             sjg, val, k + 1, Append(ids, Len(tokens)))

\* Grammar::new, `for val in values`: an OrderedExpansion allocated after the
\* tokens of each alternative; <<tokens, ordered_exp>>
RECURSIVE ordered_exp(_, _, _, _, _)
ordered_exp(tokens, sjg, values, k, acc) ==
    IF k > Len(values) THEN <<tokens, acc>>
    ELSE LET allocated(et) ==
                 ordered_exp(Append(et[1], OrderedExpansion(et[2])), sjg, values, k + 1,
                             Append(acc, Len(et[1])))
         IN allocated(expansion_tokens(tokens, sjg, values[k], 1, <<>>))

\* Grammar::new, the second for_each: the rules from rule r on
RECURSIVE construct(_, _, _)
construct(tokens, sjg, r) ==
    IF r > Len(sjg) THEN tokens
    ELSE LET stored(oe) == construct([oe[1] EXCEPT ![r] = NonTerminal(oe[2])], sjg, r + 1)
         IN stored(ordered_exp(tokens, sjg, sjg[r].values, 1, <<>>))

\* Grammar::new up to its call of optimize(); start is NoIndex where
\* `g.token_map["<start>"]` panics
GrammarNew(sjg) ==
    LET tokens == construct([i \in 1..Len(sjg) |-> NonTerminal(<<>>)], sjg, 1) IN
    [tokens |-> tokens, built |-> tokens,
     start |-> IF in_token_map(sjg, "<start>") THEN token_map(sjg, "<start>") ELSE NoIndex]

\* tests::create_simple_dummy_grammar and tests::create_complex_dummy_grammar
DummyGrammar(tokens) == [tokens |-> tokens, built |-> tokens, start |-> 0]
create_simple_dummy_grammar ==
    DummyGrammar(<< NonTerminal(<<1>>), OrderedExpansion(<<2, 3>>), Terminal(<<65>>),
                    Terminal(<<66>>), Nop, OrderedExpansion(<<2, 4, 3>>) >>)
create_complex_dummy_grammar ==
    DummyGrammar(<< NonTerminal(<<1>>), OrderedExpansion(<<2, 3>>), Terminal(<<65>>),
                    Terminal(<<66>>), NonTerminal(<<5>>), OrderedExpansion(<<6, 7>>),
                    Terminal(<<67>>), Terminal(<<68>>), Nop, OrderedExpansion(<<8>>),
                    OrderedExpansion(<<2, 8, 3>>) >>)

\* a table built by hand as the tests build theirs: an OrderedExpansion ahead
\* of the empty expansions it lists
create_nested_dummy_grammar ==
    DummyGrammar(<< OrderedExpansion(<<1, 2, 3>>), OrderedExpansion(<<>>),
                    OrderedExpansion(<<>>), OrderedExpansion(<<1>>) >>)

\* what one iteration of optimize's for loop does to a token of each kind:
\* [tokens, nop_tokens, changed]
Optimized(tokens, nop_tokens, changed) ==
    [tokens |-> tokens, nop_tokens |-> nop_tokens, changed |-> changed]

\* optimize, the Token::NonTerminal arm left out
keep_non_terminal(tokens, nop_tokens, idx) == Optimized(tokens, nop_tokens, FALSE)

\* optimize, the Token::NonTerminal arm
optimize_non_terminal(tokens, nop_tokens, idx) ==
    LET options == At(tokens, idx).ids IN
    IF Len(options) = 1
    THEN Optimized([tokens EXCEPT ![idx + 1] = At(tokens, options[1])], nop_tokens, TRUE)
    ELSE Optimized(tokens, nop_tokens, FALSE)

\* `expansions.retain(|x| !nop_tokens.contains(&x.0))`
retain(expansions, nop_tokens) == SelectSeq(expansions, LAMBDA x : x \notin nop_tokens)

\* optimize, the Token::OrderedExpansion arm
optimize_ordered_expansion(tokens, nop_tokens, idx) ==
    LET expansions == At(tokens, idx).ids
        emptied == IF Len(expansions) = 0 THEN [tokens EXCEPT ![idx + 1] = Nop] ELSE tokens
        nops == IF Len(expansions) = 0 THEN nop_tokens \cup {idx} ELSE nop_tokens
        copied == IF Len(expansions) = 1
                  THEN [emptied EXCEPT ![idx + 1] = At(emptied, expansions[1])]
                  ELSE emptied
        cur == At(copied, idx)
        retained == IF cur.kind = "OrderedExpansion"
                    THEN [copied EXCEPT ![idx + 1].ids = retain(cur.ids, nops)]
                    ELSE copied
    IN Optimized(retained, nops,
                 \/ Len(expansions) = 0
                 \/ Len(expansions) = 1
                 \/ (cur.kind = "OrderedExpansion" /\ retain(cur.ids, nops) # cur.ids))

\* optimize, the body of `for idx in 0..self.tokens.len()` with every
\* `changed = true` left out
optimize_token_unflagged(tokens, nop_tokens, idx, changed) ==
    LET arm == CASE At(tokens, idx).kind = "NonTerminal" ->
                        optimize_non_terminal(tokens, nop_tokens, idx)
                 [] At(tokens, idx).kind = "OrderedExpansion" ->
                        optimize_ordered_expansion(tokens, nop_tokens, idx)
                 [] OTHER -> Optimized(tokens, nop_tokens, FALSE)
    IN [arm EXCEPT !.changed = changed]

\* optimize, the body of `for idx in 0..self.tokens.len()`
optimize_token(tokens, nop_tokens, idx, changed) ==
    LET arm == CASE At(tokens, idx).kind = "NonTerminal" ->
                        optimize_non_terminal(tokens, nop_tokens, idx)
                 [] At(tokens, idx).kind = "OrderedExpansion" ->
                        optimize_ordered_expansion(tokens, nop_tokens, idx)
                 [] OTHER -> Optimized(tokens, nop_tokens, FALSE)
    IN [arm EXCEPT !.changed = changed \/ @]

\* generate's recursion limit: `if depth > 128 { return; }`
DepthLimit == 128
\* the same test one level late
depth_exceeded_late(depth) == depth > DepthLimit + 1
depth_exceeded(depth) == depth > DepthLimit

\* the grammars: every JSON grammar compiled by Grammar::new, and the token
\* tables the tests build by hand
Grammars ==
    { GrammarNew(sjg) : sjg \in JsonGrammars }
    \cup { create_simple_dummy_grammar, create_complex_dummy_grammar,
           create_nested_dummy_grammar }

NoFrames == <<>>
Frame(id, depth) == [id |-> id, depth |-> depth, at |-> 0]

\* ---- optimize(), one action per arm of its match, per loop test ----
OptimizeStep ==
    \E r \in { optimize_token(grammar.tokens, optimizer.nop_tokens, optimizer.idx,
                              optimizer.changed) } :
        /\ grammar' = [grammar EXCEPT !.tokens = r.tokens]
        /\ optimizer' = [optimizer EXCEPT !.idx = @ + 1, !.changed = r.changed,
                                          !.nop_tokens = r.nop_tokens]
        /\ UNCHANGED <<engine_vars, arc_vars, load_vars, worker_vars, ni_vars, run_vars,
                       tc_vars, prng_vars, generator>>

InFor == optimizer.pc = "for" /\ optimizer.idx < Len(grammar.tokens)
ForDone == optimizer.pc = "for" /\ optimizer.idx = Len(grammar.tokens)

OptimizeNonTerminal ==
    /\ InFor /\ At(grammar.tokens, optimizer.idx).kind = "NonTerminal"
    /\ OptimizeStep
OptimizeOrderedExpansion ==
    /\ InFor /\ At(grammar.tokens, optimizer.idx).kind = "OrderedExpansion"
    /\ OptimizeStep
OptimizeLeaf ==
    /\ InFor /\ At(grammar.tokens, optimizer.idx).kind \in {"Terminal", "Nop"}
    /\ OptimizeStep

\* `while changed`: another pass
OptimizeWhile ==
    /\ ForDone /\ optimizer.changed
    /\ optimizer' = [optimizer EXCEPT !.idx = 0, !.changed = FALSE]
    /\ UNCHANGED <<engine_vars, arc_vars, load_vars, worker_vars, ni_vars, run_vars,
                   tc_vars, prng_vars, grammar, generator>>

\* `while changed`: a pass changed nothing, optimize() returns
OptimizeReturn ==
    /\ ForDone /\ ~optimizer.changed
    /\ optimizer' = [optimizer EXCEPT !.pc = "returned",
                                      !.first = IF optimizer.run = 1 THEN grammar.tokens ELSE @]
    /\ UNCHANGED <<engine_vars, arc_vars, load_vars, worker_vars, ni_vars, run_vars,
                   tc_vars, prng_vars, grammar, generator>>

\* optimize() called on the grammar it has already optimized
OptimizeAgain ==
    /\ optimizer.pc = "returned" /\ optimizer.run = 1 /\ generator.pc = "idle"
    /\ optimizer' = [optimizer EXCEPT !.pc = "for", !.idx = 0, !.changed = FALSE,
                                      !.nop_tokens = {}, !.run = 2]
    /\ UNCHANGED <<engine_vars, arc_vars, load_vars, worker_vars, ni_vars, run_vars,
                   tc_vars, prng_vars, grammar, generator>>

\* ---- generate(), the recursion kept as a stack of frames ----
top == generator.stack[Len(generator.stack)]
token == At(grammar.tokens, top.id)

\* the call of the top frame returns to its caller
Returns(out) ==
    /\ generator' = [generator EXCEPT
                        !.stack = SubSeq(@, 1, Len(@) - 1),
                        !.out = out,
                        !.pc = IF Len(generator.stack) = 1 THEN "returned" ELSE @]
    /\ UNCHANGED <<engine_vars, arc_vars, load_vars, worker_vars, ni_vars, run_vars,
                   tc_vars, prng_vars, grammar, optimizer>>

\* `self.generate(depth + 1, id, prng, out)` from the top frame
Descends(id) ==
    /\ generator' = [generator EXCEPT
                        !.stack = Append([@ EXCEPT ![Len(@)].at = @ + 1],
                                         Frame(id, top.depth + 1))]
    /\ UNCHANGED <<engine_vars, arc_vars, load_vars, worker_vars, ni_vars, run_vars,
                   tc_vars, prng_vars, grammar, optimizer>>

\* grammar.generate(0, grammar.start.unwrap(), prng, out) on the compiled grammar
Generate ==
    /\ optimizer.pc = "returned" /\ optimizer.run = 1 /\ generator.pc = "idle"
    /\ generator' = [pc |-> "running", stack |-> <<Frame(grammar.start, 0)>>, out |-> <<>>]
    /\ UNCHANGED <<engine_vars, arc_vars, load_vars, worker_vars, ni_vars, run_vars,
                   tc_vars, prng_vars, grammar, optimizer>>

Entered == generator.pc = "running" /\ top.at = 0

GenerateDepthLimit ==
    /\ Entered /\ depth_exceeded(top.depth)
    /\ Returns(generator.out)
GenerateTerminal ==
    /\ Entered /\ ~depth_exceeded(top.depth) /\ token.kind = "Terminal"
    /\ Returns(generator.out \o token.bytes)
GenerateNop ==
    /\ Entered /\ ~depth_exceeded(top.depth) /\ token.kind = "Nop"
    /\ Returns(generator.out)
\* prng.pick(options): rand_range(0, 0) then nth(0).unwrap() on no options
GenerateNonTerminal ==
    /\ Entered /\ ~depth_exceeded(top.depth) /\ token.kind = "NonTerminal"
    /\ IF Len(token.ids) = 0
       THEN /\ generator' = [generator EXCEPT !.pc = "panicked"]
            /\ UNCHANGED <<engine_vars, arc_vars, load_vars, worker_vars, ni_vars, run_vars,
                           tc_vars, prng_vars, grammar, optimizer>>
       ELSE \E option \in pick(token.ids) : Descends(option)
GenerateOrderedExpansion ==
    /\ generator.pc = "running" /\ (top.at > 0 \/ ~depth_exceeded(top.depth))
    /\ token.kind = "OrderedExpansion" /\ top.at < Len(token.ids)
    /\ Descends(token.ids[top.at + 1])
\* the recursive calls of a NonTerminal or OrderedExpansion frame are over
GenerateReturn ==
    /\ generator.pc = "running" /\ (top.at > 0 \/ ~depth_exceeded(top.depth))
    /\ \/ token.kind = "NonTerminal" /\ top.at = 1
       \/ token.kind = "OrderedExpansion" /\ top.at = Len(token.ids)
    /\ Returns(generator.out)

GenerateStep ==
    \/ GenerateDepthLimit
    \/ GenerateTerminal
    \/ GenerateNop
    \/ GenerateNonTerminal
    \/ GenerateOrderedExpansion
    \/ GenerateReturn

InitGrammar ==
    /\ corpus = <<>> /\ cfg = "none" /\ EngineIdle
    /\ ArcIdle /\ LoadIdle /\ WorkerIdle /\ NiIdle /\ TcIdle /\ PrngIdle /\ RunIdle
    /\ grammar \in Grammars
    /\ optimizer = [pc |-> IF grammar.start = NoIndex THEN "panicked" ELSE "for",
                    idx |-> 0, changed |-> FALSE, nop_tokens |-> {}, run |-> 1,
                    first |-> <<>>]
    /\ generator = [pc |-> "idle", stack |-> NoFrames, out |-> <<>>]

NextGrammar ==
    \/ OptimizeNonTerminal
    \/ OptimizeOrderedExpansion
    \/ OptimizeLeaf
    \/ OptimizeWhile
    \/ OptimizeReturn
    \/ OptimizeAgain
    \/ Generate
    \/ GenerateDepthLimit
    \/ GenerateTerminal
    \/ GenerateNop
    \/ GenerateNonTerminal
    \/ GenerateOrderedExpansion
    \/ GenerateReturn

SpecGrammar == InitGrammar /\ [][NextGrammar]_vars

\* generate() is sequential code: a call that can take a step takes it
SpecGenerate == InitGrammar /\ [][NextGrammar]_vars /\ WF_vars(GenerateStep)

\* a TokenIdentifier that indexes an existing position of the token array
Exists(id) == id \in 0..Len(grammar.tokens) - 1

\* C14: once optimize() has returned, no OrderedExpansion has zero children,
\* no NonTerminal has exactly one alternative, and every token identifier
\* stored in a token, and the start identifier, index an existing position
\* of the token array.
C14_OptimizedShape ==
    optimizer.pc = "returned" =>
        /\ \A i \in 1..Len(grammar.tokens) :
               /\ grammar.tokens[i].kind = "OrderedExpansion" => Len(grammar.tokens[i].ids) # 0
               /\ grammar.tokens[i].kind = "NonTerminal" => Len(grammar.tokens[i].ids) # 1
               /\ \A k \in 1..Len(grammar.tokens[i].ids) : Exists(grammar.tokens[i].ids[k])
        /\ Exists(grammar.start)

\* optimize() has returned on the grammar of tests::test_complex_optimization,
\* whose single-alternative NonTerminals and one-child OrderedExpansion it replaced
C14_Witness ==
    /\ optimizer.pc = "returned" /\ optimizer.run = 1
    /\ grammar.built = create_complex_dummy_grammar.tokens
    /\ grammar.tokens # grammar.built
    /\ At(grammar.tokens, 0) = OrderedExpansion(<<2, 3>>)
    /\ At(grammar.tokens, 9) = Nop

\* C15: optimize() is idempotent: run on a grammar it has already optimized,
\* it returns with the token array as the first run left it.
C15_OptimizeIdempotent ==
    (optimizer.pc = "returned" /\ optimizer.run = 2) => grammar.tokens = optimizer.first

\* the second run has returned on a grammar the first run needed several
\* passes to rewrite, one with an empty alternative turned into Nop
C15_Witness ==
    /\ optimizer.pc = "returned" /\ optimizer.run = 2
    /\ optimizer.first # grammar.built
    /\ \E i \in 1..Len(grammar.built) :
           grammar.built[i] = OrderedExpansion(<<>>) /\ grammar.tokens[i] = Nop

\* C16 (depth): the first call has depth 0, each descent enters with its
\* caller's depth plus one, and no call is entered with a depth above 129.
DepthGrowsByOne ==
    generator.pc # "idle" =>
        \A i \in 1..Len(generator.stack) :
            /\ generator.stack[i].depth = i - 1
            /\ generator.stack[i].depth <= DepthLimit + 1

\* C16 (limit): a call entered with depth > 128 returns to its caller
\* without appending anything and without descending.
LimitReturnsUntouched ==
    (generator.pc = "running" /\ top.at = 0 /\ top.depth > DepthLimit)
        => /\ generator'.out = generator.out
           /\ generator'.stack = SubSeq(generator.stack, 1, Len(generator.stack) - 1)

\* C16: generate() called with depth 0 on a compiled grammar terminates,
\* recursive grammars included; depth grows by one per descent, a call
\* entered with depth > 128 returns without appending, and no call is made
\* with depth > 129.
C16_GenerateTerminates ==
    /\ []DepthGrowsByOne
    /\ [][LimitReturnsUntouched]_vars
    /\ (generator.pc = "running" ~> generator.pc \in {"returned", "panicked"})

\* generate() has returned on the grammar whose only rule always recurses:
\* the depth limit cut the recursion after 128 terminals
C16_Witness ==
    /\ generator.pc = "returned"
    /\ grammar.built = GrammarNew(<<Rule("<start>", << <<"a", "<start>">> >>)>>).tokens
    /\ generator.out = Repeat(97, DepthLimit)

(***************************************************************************)
(* The generators (prng/src).  A usize / u64 is its four 16-bit limbs,     *)
(* least significant first.                                                *)
(***************************************************************************)
Limb == Pow2(16)
\* the value of 16 hexadecimal digits, most significant first
Hex(d) ==
    << ((d[13] * 16 + d[14]) * 16 + d[15]) * 16 + d[16],
       ((d[9] * 16 + d[10]) * 16 + d[11]) * 16 + d[12],
       ((d[5] * 16 + d[6]) * 16 + d[7]) * 16 + d[8],
       ((d[1] * 16 + d[2]) * 16 + d[3]) * 16 + d[4] >>
\* a number below 2^31 as u64
U64(n) == <<n % Limb, n \div Limb, 0, 0>>
\* limb k of a, 0 beyond its ends
limb(a, k) == IF k \in 1..4 THEN a[k] ELSE 0
\* a ^ b
xor(a, b) ==
    <<XorBits(a[1], b[1], 16), XorBits(a[2], b[2], 16),
      XorBits(a[3], b[3], 16), XorBits(a[4], b[4], 16)>>
\* limb k of a << n and of a >> n, for 0 <= n < 64
shl_limb(a, n, k) ==
    ((limb(a, k - (n \div 16)) * Pow2(n % 16)) % Limb)
    + (limb(a, k - (n \div 16) - 1) \div Pow2(16 - (n % 16)))
shr_limb(a, n, k) ==
    (limb(a, k + (n \div 16)) \div Pow2(n % 16))
    + ((limb(a, k + (n \div 16) + 1) % Pow2(n % 16)) * Pow2(16 - (n % 16)))
shl(a, n) == <<shl_limb(a, n, 1), shl_limb(a, n, 2), shl_limb(a, n, 3), shl_limb(a, n, 4)>>
shr(a, n) == <<shr_limb(a, n, 1), shr_limb(a, n, 2), shr_limb(a, n, 3), shr_limb(a, n, 4)>>
\* a.rotate_left(n), for 0 < n < 64
rotate_left(a, n) ==
    <<shl_limb(a, n, 1) + shr_limb(a, 64 - n, 1), shl_limb(a, n, 2) + shr_limb(a, 64 - n, 2),
      shl_limb(a, n, 3) + shr_limb(a, 64 - n, 3), shl_limb(a, n, 4) + shr_limb(a, 64 - n, 4)>>

\* a + b + carry on 64 bits, the carry out of bit 63 dropped
add_carry(a, b, carry) ==
    LET s1 == a[1] + b[1] + carry
        s2 == a[2] + b[2] + (s1 \div Limb)
        s3 == a[3] + b[3] + (s2 \div Limb)
        s4 == a[4] + b[4] + (s3 \div Limb)
    IN <<s1 % Limb, s2 % Limb, s3 % Limb, s4 % Limb>>
\* a.wrapping_add(b), a.wrapping_sub(b), a.wrapping_mul(b) on 64 bits
wrapping_add(a, b) == add_carry(a, b, 0)
wrapping_sub(a, b) ==
    add_carry(a, <<Limb - 1 - b[1], Limb - 1 - b[2], Limb - 1 - b[3], Limb - 1 - b[4]>>, 1)
\* the eight bytes of a, least significant first
bytes_of(a) ==
    <<a[1] % 256, a[1] \div 256, a[2] % 256, a[2] \div 256,
      a[3] % 256, a[3] \div 256, a[4] % 256, a[4] \div 256>>
\* column k of the long multiplication of two byte rows
column(x, y, k) ==
    LET prod(i) == IF i <= k THEN x[i] * y[k + 1 - i] ELSE 0
    IN prod(1) + prod(2) + prod(3) + prod(4) + prod(5) + prod(6) + prod(7) + prod(8)
wrapping_mul(a, b) ==
    LET x == bytes_of(a)
        y == bytes_of(b)
        t1 == column(x, y, 1)
        t2 == column(x, y, 2) + (t1 \div 256)
        t3 == column(x, y, 3) + (t2 \div 256)
        t4 == column(x, y, 4) + (t3 \div 256)
        t5 == column(x, y, 5) + (t4 \div 256)
        t6 == column(x, y, 6) + (t5 \div 256)
        t7 == column(x, y, 7) + (t6 \div 256)
        t8 == column(x, y, 8) + (t7 \div 256)
    IN <<(t1 % 256) + 256 * (t2 % 256), (t3 % 256) + 256 * (t4 % 256),
         (t5 % 256) + 256 * (t6 % 256), (t7 % 256) + 256 * (t8 % 256)>>

\* a % m for 0 < m < 2^15
rem(a, m) == ((((((a[4] % m) * Limb + a[3]) % m) * Limb + a[2]) % m) * Limb + a[1]) % m

ENTROPY == Hex(<<5, 15, 13, 8, 9, 14, 13, 10, 3, 1, 3, 0, 2, 5, 6, 13>>)

\* seed.rs, generate_seeds: the seeds 0..num_seeds-1 chained from init_seed;
\* rdtsc is what get_rdtsc() returned
RECURSIVE seeds_from(_, _, _, _)
seeds_from(last_seed, i, num_seeds, seeds) ==
    IF i = num_seeds THEN seeds
    ELSE seeds_from(xor(xor(last_seed, ENTROPY), U64(i)), i + 1, num_seeds,
                    Append(seeds, xor(xor(last_seed, ENTROPY), U64(i))))
generate_seeds(init_seed, num_seeds, rdtsc) ==
    seeds_from(IF init_seed = U64(0)
               THEN xor(rdtsc, Hex(<<13, 14, 10, 13, 11, 14, 14, 15, 12, 10, 15, 14, 11, 10, 11, 14>>))
               ELSE init_seed,
               0, num_seeds, <<>>)
\* get_seeds!: Seeds { state_w, state_x, state_y, state_z }, 0 where not generated
get_seeds(seed, num, rdtsc) ==
    SubSeq(generate_seeds(seed, num, rdtsc) \o <<U64(0), U64(0), U64(0)>>, 1, 4)

\* a generator: its kind and fields; the fields only ShiShua has are empty
\* for the others
Gen(kind, state) ==
    [kind |-> kind, state |-> state, output |-> <<>>, counter |-> <<>>,
     buffer_idx |-> 0, arr_idx |-> 0]

\* ---- ShiShua (shishua.rs); a u64x4 is its four lanes ----
PHI ==
    << Hex(<<9, 14, 3, 7, 7, 9, 11, 9, 7, 15, 4, 10, 7, 12, 1, 5>>),
       Hex(<<15, 3, 9, 12, 12, 0, 6, 0, 5, 12, 14, 13, 12, 8, 3, 4>>),
       Hex(<<1, 0, 8, 2, 2, 7, 6, 11, 15, 3, 10, 2, 7, 2, 5, 1>>),
       Hex(<<15, 8, 6, 12, 6, 10, 1, 1, 13, 0, 12, 1, 8, 14, 9, 5>>),
       Hex(<<2, 7, 6, 7, 15, 0, 11, 1, 5, 3, 13, 2, 7, 11, 7, 15>>),
       Hex(<<0, 3, 4, 7, 0, 4, 5, 11, 5, 11, 15, 1, 8, 2, 7, 15>>),
       Hex(<<0, 1, 8, 8, 6, 15, 0, 9, 2, 8, 4, 0, 3, 0, 0, 2>>),
       Hex(<<12, 1, 13, 6, 4, 11, 10, 4, 0, 15, 3, 3, 5, 14, 3, 6>>),
       Hex(<<15, 0, 6, 10, 13, 7, 10, 14, 9, 7, 1, 7, 8, 7, 7, 14>>),
       Hex(<<8, 5, 8, 3, 9, 13, 6, 14, 15, 15, 11, 13, 7, 13, 12, 6>>),
       Hex(<<6, 4, 13, 3, 2, 5, 13, 1, 12, 5, 3, 7, 1, 6, 8, 2>>),
       Hex(<<12, 10, 13, 13, 0, 12, 12, 12, 15, 13, 15, 15, 11, 11, 14, 1>>),
       Hex(<<6, 2, 6, 14, 3, 3, 11, 8, 13, 0, 4, 11, 4, 3, 3, 1>>),
       Hex(<<11, 11, 15, 7, 3, 12, 7, 9, 0, 13, 9, 4, 15, 7, 9, 13>>),
       Hex(<<4, 7, 1, 12, 4, 10, 11, 3, 14, 13, 3, 13, 8, 2, 10, 5>>),
       Hex(<<15, 14, 12, 5, 0, 7, 7, 0, 5, 14, 4, 10, 14, 6, 14, 5>>) >>
STEPS == 5
ROUNDS == 4

\* lane-wise operators of u64x4
splat(v) == <<v, v, v, v>>
lanes_add(a, b) ==
    <<wrapping_add(a[1], b[1]), wrapping_add(a[2], b[2]),
      wrapping_add(a[3], b[3]), wrapping_add(a[4], b[4])>>
lanes_xor(a, b) == <<xor(a[1], b[1]), xor(a[2], b[2]), xor(a[3], b[3]), xor(a[4], b[4])>>
lanes_shr(a, n) == <<shr(a[1], n), shr(a[2], n), shr(a[3], n), shr(a[4], n)>>

\* round(): correct_index and the two shuffle vectors, as u32x8 lane numbers
correct_index(index) == LET i == 8 - 1 - index IN IF i % 2 = 0 THEN i + 1 ELSE i - 1
u32x8(a, b, c, d, e, f, g, h) ==
    <<correct_index(a), correct_index(b), correct_index(c), correct_index(d),
      correct_index(e), correct_index(f), correct_index(g), correct_index(h)>>
shuffle_lanes == << u32x8(3, 4, 1, 2, 7, 0, 5, 6), u32x8(1, 2, 7, 0, 5, 6, 3, 4) >>
\* u32 lane n of a u64x4 read as u32x8 (into_bits on a little-endian target):
\* its two limbs
u32_lane(state, n) ==
    <<state[(n \div 2) + 1][2 * (n % 2) + 1], state[(n \div 2) + 1][2 * (n % 2) + 2]>>
\* u64 lane l of the shuffled vector: u32 lanes picks[2l] and picks[2l + 1]
shuffled_lane(state, picks, l) ==
    u32_lane(state, picks[2 * l - 1]) \o u32_lane(state, picks[2 * l])
\* shuffle_u64_as_u32: shuffle1_dyn takes u32 lane picks[k] for lane k
shuffle_u64_as_u32(state, picks) ==
    <<shuffled_lane(state, picks, 1), shuffled_lane(state, picks, 2),
      shuffled_lane(state, picks, 3), shuffled_lane(state, picks, 4)>>

\* ShiShua::round: the generator after a round (the returned old output is
\* what it leaves behind in no field)
round(g) ==
    LET s1 == lanes_add(g.state[2], g.counter)
        s3 == lanes_add(g.state[4], g.counter)
        u0 == lanes_shr(g.state[1], 1)
        u1 == lanes_shr(s1, 3)
        u2 == lanes_shr(g.state[3], 1)
        u3 == lanes_shr(s3, 3)
        t0 == shuffle_u64_as_u32(g.state[1], shuffle_lanes[1])
        t1 == shuffle_u64_as_u32(s1, shuffle_lanes[2])
        t2 == shuffle_u64_as_u32(g.state[3], shuffle_lanes[1])
        t3 == shuffle_u64_as_u32(s3, shuffle_lanes[2])
        n0 == lanes_add(t0, u0)
        n1 == lanes_add(t1, u1)
        n2 == lanes_add(t2, u2)
        n3 == lanes_add(t3, u3)
    IN [g EXCEPT !.state = <<n0, n1, n2, n3>>,
                 !.counter = lanes_add(g.counter, <<U64(1), U64(3), U64(5), U64(7)>>),
                 !.output = <<lanes_xor(u0, t1), lanes_xor(u2, t3),
                              lanes_xor(n0, n3), lanes_xor(n2, n1)>>]

\* ShiShua::generate on a buffer of `chunks` chunks: one round per chunk
RECURSIVE generate_chunks(_, _)
generate_chunks(g, chunks) == IF chunks = 0 THEN g ELSE generate_chunks(round(g), chunks - 1)

\* ShiShua::new, the `for _ in 0..STEPS` loop
RECURSIVE steps(_, _)
steps(g, n) ==
    IF n = 0 THEN g
    ELSE LET mixed(s) == steps([s EXCEPT !.state = <<s.output[4], s.output[3],
                                                     s.output[2], s.output[1]>>], n - 1)
         IN mixed(generate_chunks(g, ROUNDS))

\* the state both ShiShua::new and ShiShua::set_seed build from the seeds
seeded_state(seeds) ==
    << <<PHI[4], xor(PHI[3], seeds[2]), PHI[2], xor(PHI[1], seeds[1])>>,
       <<PHI[8], xor(PHI[7], seeds[4]), PHI[6], xor(PHI[5], seeds[3])>>,
       <<PHI[12], xor(PHI[11], seeds[4]), PHI[10], xor(PHI[9], seeds[3])>>,
       <<PHI[16], xor(PHI[15], seeds[2]), PHI[14], xor(PHI[13], seeds[1])>> >>

ShiShua_new(seed, rdtsc) ==
    steps([kind |-> "ShiShua", state |-> seeded_state(get_seeds(seed, 4, rdtsc)),
           output |-> splat(splat(U64(0))), counter |-> splat(U64(0)),
           buffer_idx |-> 0, arr_idx |-> 0], STEPS)

\* ShiShua::set_seed
ShiShua_set_seed(g, seed, rdtsc) ==
    [g EXCEPT !.state = seeded_state(get_seeds(seed, 4, rdtsc))]

\* ShiShua::rand: [val, g]
ShiShua_rand(g) ==
    LET lane == IF g.buffer_idx % 3 = 0
                THEN [g EXCEPT !.buffer_idx = 0, !.arr_idx = @ + 1] ELSE g
        rolled == IF lane.arr_idx % 3 = 0 /\ lane.buffer_idx % 3 = 0
                  THEN round([lane EXCEPT !.buffer_idx = 0, !.arr_idx = 0]) ELSE lane
    IN [val |-> rolled.output[rolled.arr_idx + 1][rolled.buffer_idx + 1],
        g |-> [rolled EXCEPT !.buffer_idx = @ + 1]]

\* ---- Xorshift64 (xorshift.rs) and RomuDuoJr (romuduojr.rs) ----
Xorshift64_new(seed, rdtsc) == Gen("Xorshift64", <<get_seeds(seed, 1, rdtsc)[1]>>)
Xorshift64_rand(g) ==
    LET a == xor(g.state[1], shl(g.state[1], 13))
        b == xor(a, shr(a, 17))
    IN [val |-> g.state[1], g |-> [g EXCEPT !.state = <<xor(b, shl(b, 43))>>]]

RomuDuoJr_new(seed, rdtsc) ==
    Gen("RomuDuoJr", <<get_seeds(seed, 2, rdtsc)[1], get_seeds(seed, 2, rdtsc)[2]>>)
RomuDuoJr_rand(g) ==
    [val |-> g.state[1],
     g |-> [g EXCEPT !.state =
               << wrapping_mul(Hex(<<13, 3, 8, 3, 3, 14, 8, 0, 4, 15, 4, 12, 5, 7, 4, 11>>),
                               g.state[2]),
                  rotate_left(wrapping_sub(g.state[2], g.state[1]), 27) >>]]

\* the generator kinds of the model
Kinds == {"Xorshift64", "RomuDuoJr", "ShiShua"}

\* Xorshift64::new, RomuDuoJr::new, ShiShua::new
new(kind, seed, rdtsc) ==
    CASE kind = "Xorshift64" -> Xorshift64_new(seed, rdtsc)
      [] kind = "RomuDuoJr" -> RomuDuoJr_new(seed, rdtsc)
      [] kind = "ShiShua" -> ShiShua_new(seed, rdtsc)

\* GeneratorTrait for Generator, set_seed: the other kinds rebuild all their
\* state from the seeds, as their constructor does
set_seed(g, seed, rdtsc) ==
    CASE g.kind = "Xorshift64" -> Xorshift64_new(seed, rdtsc)
      [] g.kind = "RomuDuoJr" -> RomuDuoJr_new(seed, rdtsc)
      [] g.kind = "ShiShua" -> ShiShua_set_seed(g, seed, rdtsc)

\* GeneratorTrait for Generator, rand: [val, g]
rand(g) ==
    CASE g.kind = "Xorshift64" -> Xorshift64_rand(g)
      [] g.kind = "RomuDuoJr" -> RomuDuoJr_rand(g)
      [] g.kind = "ShiShua" -> ShiShua_rand(g)

(***************************************************************************)
(* Two generators of one kind, each constructed, drawn from and reseeded   *)
(* on its own.                                                             *)
(***************************************************************************)
\* values drawn from a generator between two seedings
MaxDraws == 2
\* the seeds given to new and set_seed, and what get_rdtsc() can return
Seeds == { U64(0), U64(1), U64(1234), ENTROPY }
RdtscValues == { U64(1000), U64(1001) }

\* a generator just given a seed by `origin` (new or set_seed)
Seeded(g, seed, origin) == [g |-> g, seed |-> seed, origin |-> origin, stream |-> <<>>]

\* g.rand() on generator i
Rand(i) ==
    /\ Len(gens[i].stream) < MaxDraws
    /\ \E r \in { rand(gens[i].g) } :
           gens' = [gens EXCEPT ![i].g = r.g, ![i].stream = Append(@, r.val)]
    /\ UNCHANGED <<engine_vars, arc_vars, load_vars, worker_vars, ni_vars, run_vars,
                   tc_vars, grammar_vars, rng>>

\* g.set_seed(seed) on generator i (MutationEngine::set_generator_seed,
\* Rng::set_seed), once per generator
SetSeed(i) ==
    /\ gens[i].origin = "new"
    /\ \E seed \in Seeds, rdtsc \in RdtscValues :
           gens' = [gens EXCEPT ![i] = Seeded(set_seed(gens[i].g, seed, rdtsc), seed, "set_seed")]
    /\ UNCHANGED <<engine_vars, arc_vars, load_vars, worker_vars, ni_vars, run_vars,
                   tc_vars, grammar_vars, rng>>

RandSome == \E i \in 1..2 : Rand(i)
SetSeedSome == \E i \in 1..2 : SetSeed(i)

InitGens ==
    /\ corpus = <<>> /\ cfg = "none" /\ EngineIdle
    /\ ArcIdle /\ LoadIdle /\ WorkerIdle /\ NiIdle /\ TcIdle /\ GrammarIdle /\ RunIdle
    /\ rng = "none"
    /\ \E kind \in Kinds :
           gens \in { <<Seeded(new(kind, sa, ta), sa, "new"), Seeded(new(kind, sb, tb), sb, "new")>> :
                      sa \in Seeds, sb \in Seeds, ta \in RdtscValues, tb \in RdtscValues }

NextGens ==
    \/ RandSome
    \/ SetSeedSome

SpecGens == InitGens /\ [][NextGens]_vars

\* the two streams agree as far as both have been drawn
SameStreams ==
    \A k \in 1..Min(Len(gens[1].stream), Len(gens[2].stream)) :
        gens[1].stream[k] = gens[2].stream[k]

\* C17: two generators of the same kind constructed with the same seed
\* produce identical output streams, seed 0 included.
C17_SameSeedSameStream ==
    (/\ gens[1].origin = "new" /\ gens[2].origin = "new"
     /\ gens[1].seed = gens[2].seed)
        => SameStreams

\* C18: after set_seed(s) with s != 0 the values rand() returns are
\* determined by s alone, whatever the generator's kind, the state it had
\* and the number of values drawn from it before.
C18_ReseedDeterminesStream ==
    (/\ gens[1].origin = "set_seed" /\ gens[2].origin = "set_seed"
     /\ gens[1].seed = gens[2].seed /\ gens[1].seed # U64(0))
        => SameStreams

(***************************************************************************)
(* Rng<Generator> (prng/src/lib.rs): rand_range, rand_two and shuffle      *)
(* drawing from a generator.                                               *)
(***************************************************************************)
\* calls made on one Rng
MaxOps == 2
\* the seeds the Rng's generator is constructed with
RngSeeds == { U64(1), U64(1234), ENTROPY }
\* the arguments of rand_two and of shuffle
Maxima == {0, 1, 2, 3, 5}
Slices == { <<>>, <<1>>, <<1, 2>>, <<7, 7>>, <<1, 2, 3>>, <<7, 8, 7, 9>>, <<1, 2, 3, 4, 5>> }

\* Rng::rand_range::<usize>(min, max) for min <= max: [val, g]
rand_range_of(g, min, max) ==
    IF min = max THEN [val |-> min, g |-> g]
    ELSE LET ranged(r) == [val |-> min + rem(r.val, max - min), g |-> r.g]
         IN ranged(rand(g))

\* `entries.swap(i, j)` writing entry j over entry i only
swap_overwrite(entries, i, j) == [entries EXCEPT ![i + 1] = entries[j + 1]]
\* `entries.swap(i, j)`
swap(entries, i, j) == [entries EXCEPT ![i + 1] = entries[j + 1], ![j + 1] = entries[i + 1]]

\* Rng::shuffle, `for i in (1..len).rev()` from i down: [entries, g]
RECURSIVE shuffle_from(_, _, _)
shuffle_from(g, entries, i) ==
    IF i < 1 THEN [entries |-> entries, g |-> g]
    ELSE LET swapped(j) == shuffle_from(j.g, swap(entries, i, j.val), i - 1)
         IN swapped(rand_range_of(g, 0, i + 1))
\* Rng::shuffle: [entries, g]
shuffle_of(g, entries) ==
    IF Len(entries) = 2 THEN [entries |-> swap(entries, 0, 1), g |-> g]
    ELSE shuffle_from(g, entries, Len(entries) - 1)

\* rand_two: `self.rand() % max` twice: [val_a, val_b, g]
two_draws(g, max) ==
    LET second(a) ==
            LET both(b) == [val_a |-> rem(a.val, max), val_b |-> rem(b.val, max), g |-> b.g]
            IN both(rand(a.g))
    IN second(rand(g))

NoOp == [name |-> "none", pc |-> "idle", max |-> 0, val_a |-> 0, val_b |-> 0,
         res |-> <<>>, before |-> <<>>]

\* the Rng has no call in progress and may be called again
Callable == rng.op.pc \in {"idle", "returned"} /\ rng.ops < MaxOps

RngFrame ==
    UNCHANGED <<engine_vars, arc_vars, load_vars, worker_vars, ni_vars, run_vars,
                tc_vars, grammar_vars, gens>>

\* prng.rand_two(max) with max <= 1
RandTwoDegenerate ==
    /\ Callable
    /\ \E max \in { m \in Maxima : m <= 1 } :
           rng' = [rng EXCEPT !.ops = @ + 1,
                              !.op = [NoOp EXCEPT !.name = "rand_two", !.pc = "returned",
                                                  !.max = max, !.res = <<0, 1>>]]
    /\ RngFrame

\* prng.rand_two(max) up to the loop
RandTwoCall ==
    /\ Callable
    /\ \E max \in { m \in Maxima : m > 1 } :
           \E d \in { two_draws(rng.g, max) } :
               rng' = [rng EXCEPT !.ops = @ + 1, !.g = d.g,
                                  !.op = [NoOp EXCEPT !.name = "rand_two", !.pc = "loop",
                                                      !.max = max, !.val_a = d.val_a,
                                                      !.val_b = d.val_b]]
    /\ RngFrame

\* the loop of rand_two: the values are equal, two more are drawn
RandTwoRetry ==
    /\ rng.op.pc = "loop" /\ rng.op.val_a = rng.op.val_b
    /\ \E d \in { two_draws(rng.g, rng.op.max) } :
           rng' = [rng EXCEPT !.g = d.g, !.op.val_a = d.val_a, !.op.val_b = d.val_b]
    /\ RngFrame

\* the loop of rand_two: the values differ, the smaller is returned first
RandTwoReturn ==
    /\ rng.op.pc = "loop" /\ rng.op.val_a # rng.op.val_b
    /\ rng' = [rng EXCEPT !.op.pc = "returned",
                          !.op.res = IF rng.op.val_a > rng.op.val_b
                                     THEN <<rng.op.val_b, rng.op.val_a>>
                                     ELSE <<rng.op.val_a, rng.op.val_b>>]
    /\ RngFrame

\* prng.shuffle(&mut entries)
Shuffle ==
    /\ Callable
    /\ \E entries \in Slices :
           \E s \in { shuffle_of(rng.g, entries) } :
               rng' = [rng EXCEPT !.ops = @ + 1, !.g = s.g,
                                  !.op = [NoOp EXCEPT !.name = "shuffle", !.pc = "returned",
                                                      !.before = entries, !.res = s.entries]]
    /\ RngFrame

InitRng ==
    /\ corpus = <<>> /\ cfg = "none" /\ EngineIdle
    /\ ArcIdle /\ LoadIdle /\ WorkerIdle /\ NiIdle /\ TcIdle /\ GrammarIdle /\ RunIdle
    /\ gens = "none"
    /\ rng \in { [g |-> new(kind, seed, U64(1000)), ops |-> 0, op |-> NoOp] :
                 kind \in Kinds, seed \in RngSeeds }

NextRng ==
    \/ RandTwoDegenerate
    \/ RandTwoCall
    \/ RandTwoRetry
    \/ RandTwoReturn
    \/ Shuffle

SpecRng == InitRng /\ [][NextRng]_vars

\* the pair a returned rand_two gave: (0, 1) for max <= 1, else two distinct
\* values below max, the smaller first
RandTwoPairInRange ==
    (rng.op.name = "rand_two" /\ rng.op.pc = "returned")
        => IF rng.op.max <= 1 THEN rng.op.res = <<0, 1>>
           ELSE /\ 0 <= rng.op.res[1] /\ rng.op.res[1] < rng.op.res[2]
                /\ rng.op.res[2] < rng.op.max

\* a pass of the loop of rand_two on equal values leaves the call in another
\* state than it found: rand_two is deterministic code, so a pass that gives
\* back the generator and the two values it started from repeats for ever
RandTwoLoopAdvances ==
    (rng.op.pc = "loop" /\ rng.op.val_a = rng.op.val_b)
        => two_draws(rng.g, rng.op.max)
               # [val_a |-> rng.op.val_a, val_b |-> rng.op.val_b, g |-> rng.g]

\* C19: rand_two(k) for k >= 2 returns a pair (a, b) with 0 <= a < b < k
\* whatever values the generator yields, and (0, 1) for k <= 1: a call that
\* returned gave such a pair, and no call is caught in the loop for ever.
C19_RandTwoReturnsPair ==
    /\ RandTwoPairInRange
    /\ RandTwoLoopAdvances

\* how often v occurs in s
Count(s, v) == Cardinality({ i \in 1..Len(s) : s[i] = v })
\* p holds the elements of s, each as often as s does
IsPermutation(p, s) ==
    /\ Len(p) = Len(s)
    /\ \A i \in 1..Len(s) : Count(p, s[i]) = Count(s, s[i])

\* C20: shuffle leaves the slice a permutation of what it held, for every
\* length and whatever the generator yields, and exchanges the two elements
\* of a 2-element slice.
C20_ShuffleIsPermutation ==
    (rng.op.name = "shuffle" /\ rng.op.pc = "returned")
        => /\ IsPermutation(rng.op.res, rng.op.before)
           /\ \A p \in shuffle(rng.op.before) : IsPermutation(p, rng.op.before)
           /\ Len(rng.op.before) = 2
                  => rng.op.res = <<rng.op.before[2], rng.op.before[1]>>

\* shuffle has returned on a 5-element slice it left in another order, after
\* having exchanged the elements of a 2-element slice
C20_Witness ==
    /\ rng.op.name = "shuffle" /\ rng.op.pc = "returned" /\ rng.ops = 2
    /\ rng.op.before = <<1, 2, 3, 4, 5>>
    /\ rng.op.res # rng.op.before
    /\ rng.op.res[5] # 5

(***************************************************************************)
(* The run (main.rs): spawn_workers starts the worker threads, then main   *)
(* polls the shared FuzzerStats until max_iter is reached.  main returning *)
(* ends the process, and with it every worker.                             *)
(***************************************************************************)
\* fuzzer_config.max_iter: None, or Some(m) for the values of m followed
NoMaxIter == [some |-> FALSE, m |-> 0]
MaxIters == { NoMaxIter } \cup { [some |-> TRUE, m |-> m] : m \in {0, 1, 2} }

\* a worker thread whose set_core_affinity(..).unwrap() panicked before worker()
NeverStarted == [FreshWorker EXCEPT !.pc = "dead", !.cause = "set_core_affinity"]

\* `if let Some(max_iter) = fuzzer_config.max_iter { if iterations >= max_iter`
reached(max_iter, iterations) == max_iter.some /\ iterations >= max_iter.m

\* main: one pass of `loop`: get_iterations, get_crashes, the line printed,
\* then `break Ok(())` or the sleep before the next pass
MainPoll ==
    /\ monitor.pc = "loop"
    /\ monitor' = [monitor EXCEPT !.iterations = fstats.iterations,
                                  !.crashes = fstats.crashes,
                                  !.pc = IF reached(monitor.max_iter, fstats.iterations)
                                         THEN "exited" ELSE "loop"]
    /\ UNCHANGED <<engine_vars, arc_vars, load_vars, worker_vars, ni_vars,
                   tc_vars, grammar_vars, prng_vars, area>>

\* a step of a worker thread, which runs as long as the process does
WorkerStep ==
    /\ monitor.pc = "loop"
    /\ NextWorker

InitRun ==
    /\ corpus = << <<65>> >>
    /\ cfg \in { f \in Configs : /\ f.mutation_passes = 1 /\ ~f.printable
                                 /\ f.mutators = DefaultMutators /\ f.overflow_checks }
    /\ EngineIdle
    /\ ArcIdle /\ LoadIdle /\ NiIdle /\ TcIdle /\ GrammarIdle /\ PrngIdle
    /\ area = "none"
    /\ wk \in { w \in [Workers -> {FreshWorker, NeverStarted}] : w[1] = NeverStarted }
    /\ fstats = [iterations |-> 0, crashes |-> 0]
    /\ crash_dir = <<>>
    /\ wlog = {}
    /\ mode \in {"file", "stdin"}
    /\ monitor \in { [pc |-> "loop", max_iter |-> m, iterations |-> 0, crashes |-> 0]
                     : m \in MaxIters }

NextRun ==
    \/ MainPoll
    \/ WorkerStep

\* the threads are scheduled: main keeps polling and a worker that can take
\* a step takes one
SpecRun ==
    /\ InitRun /\ [][NextRun]_vars
    /\ WF_vars(MainPoll) /\ WF_vars(WorkerStep)

\* main has left its loop only on a count it read that reached max_iter
ExitedOnReachedCount ==
    monitor.pc = "exited"
        => monitor.max_iter.some /\ monitor.iterations >= monitor.max_iter.m

Written(w) == [ret |-> TRUE, w |-> w]
Continue == [ret |-> FALSE, w |-> <<>>]

\* Rng::rand_range(min, max) on the raw value of rand()
ranged(raw, min, max) == IF min = max THEN min ELSE min + (raw % (max - min))

\* Option::None of the index-valued helpers
None == -1

\* the least element of a non-empty set of indices
least(S) == CHOOSE i \in S : \A j \in S : i <= j

\* seek_num: the first loop, from o to the first ASCII digit; None at a byte
\* with the high bit set and at the end of the data
seek_digit(data, o) ==
    LET stops == { i \in o..(Len(data) - 1) : IsAsciiDigit(At(data, i)) \/ At(data, i) >= 128 } IN
    IF stops = {} THEN None
    ELSE IF IsAsciiDigit(At(data, least(stops))) THEN least(stops) ELSE None
\* seek_num: the second loop, to the end of the digits
seek_end(data, o) ==
    least({ i \in o..Len(data) : i = Len(data) \/ ~IsAsciiDigit(At(data, i)) })
\* seek_num(data, prng) with o = rand_range(0, end) drawn from raw: <<ns, ne>>,
\* or <<>> for None
seek_num(data, raw) ==
    IF Len(data) = 0 THEN <<>>
    ELSE LET ns == seek_digit(data, ranged(raw, 0, Len(data))) IN
         IF ns = None THEN <<>> ELSE <<ns, seek_end(data, ns + 1)>>

\* twiddle(val, prng) when its first pass draws arm 0 (`val = prng.rand() as
\* i64`) and prng.bool() then ends the loop
twiddle(val, raw) == raw

\* delim_of
delim_of(delim) ==
    CASE delim = 60 -> 62   [] delim = 40 -> 41   [] delim = 123 -> 125
      [] delim = 91 -> 93   [] delim = 62 -> 60   [] delim = 41 -> 40
      [] delim = 125 -> 123 [] delim = 93 -> 91   [] delim = 10 -> 10
      [] OTHER -> None

\* drange_start: the index of the first '[', '<', '(' or '\n'
drange_start(data) ==
    LET opens == { i \in 0..(Len(data) - 1) : At(data, i) \in {91, 60, 40, 10} } IN
    IF opens = {} THEN None ELSE least(opens)

\* drange_end from index i at the given depth: the set of the Some(x) it can
\* return, {} for None. prng.bool_chance(3) decides between the first closing
\* delimiter at depth 0 and a later one
RECURSIVE drange_end_from(_, _, _, _, _)
drange_end_from(data, delim_open, delim_close, i, depth) ==
    IF i >= Len(data) THEN {}
    ELSE IF At(data, i) = delim_close
    THEN IF depth - 1 = 0
         THEN LET next == drange_end_from(From(data, i + 1), delim_open, delim_close, 0, 0) IN
              {i + 1} \cup { i + 1 + x : x \in next }
         ELSE drange_end_from(data, delim_open, delim_close, i + 1, depth - 1)
    ELSE IF At(data, i) = delim_open
    THEN drange_end_from(data, delim_open, delim_close, i + 1, depth + 1)
    ELSE IF At(data, i) >= 128 THEN {}
    ELSE drange_end_from(data, delim_open, delim_close, i + 1, depth)
drange_end(data, delim_open, delim_close) ==
    drange_end_from(data, delim_open, delim_close, 0, 0)

\* drange: the set of (delim_start, delim_start + delim_end) it can return
drange(data) ==
    LET delim_start == drange_start(data) IN
    IF delim_start = None THEN {}
    ELSE IF delim_of(At(data, delim_start)) = None THEN {}
    ELSE { <<delim_start, delim_start + e>>
           : e \in drange_end(From(data, delim_start), At(data, delim_start),
                              delim_of(At(data, delim_start))) }

\* other_drange, one of its tries: from `start`, the first delim_start for
\* which drange_end gives Some
RECURSIVE other_drange_from(_, _, _)
other_drange_from(data, delim_start, i) ==
    IF i >= Len(data) THEN {}
    ELSE LET ends == IF At(data, i) = delim_start
                     THEN drange_end(From(data, i), delim_start, delim_of(delim_start))
                     ELSE {} IN
         IF ends # {} THEN { <<i, i + e>> : e \in ends }
         ELSE other_drange_from(data, delim_start, i + 1)
\* other_drange: what its tries can return, over the starts they can draw
other_drange(data, delim_start) ==
    IF delim_of(delim_start) = None THEN {}
    ELSE UNION { other_drange_from(data, delim_start, start) : start \in 0..(Len(data) - 1) }

\* aim(from, to, jump, land, prng) when rand_range(0, AIMROUNDS) draws no
\* round: <<jump, land>>
aim(from, to, jump, land, rawj, rawl) ==
    IF Len(from) = 0
    THEN <<0, IF Len(to) > 0 THEN ranged(rawl, 0, Len(to)) ELSE 0>>
    ELSE IF Len(to) = 0 THEN <<jump, 0>>
    ELSE <<ranged(rawj, 0, Len(from)), ranged(rawl, 0, Len(to))>>

\* random_block(data, prng, corpus) on the corpus entry `other`
random_block(data, other, rawstart, rawlen) ==
    IF Len(other) < 3 THEN data
    ELSE LET start == ranged(rawstart, 0, Len(other) - 2)
             len == Min(Len(other) - start, 4 * Len(data))
         IN From(other, ranged(rawlen, 0, len))

\* mutate_area, arms 4..=5 (repeat characters) when the first prng.bool() is
\* false, so n = rand_range(1, 8 + 3)
area_repeat(data, d) ==
    LET n == ranged(d.n, 1, 8 + 3)
        ab == rand_two_by(d.x, d.y, Len(data))
        len == ab[2] - ab[1]
    IN Upto(data, ab[1])
       \o [k \in 1..(len * n) |-> At(data, ab[1] + ((k - 1) % len))]
       \o From(data, ab[1])

\* mutate_area, arm 6 (insert random data): the n bytes of rand_byte_vec are
\* followed when they all are d.b
area_insert_data(data, d) ==
    LET pos == ranged(d.x, 0, Len(data))
        n == ranged(d.n, 0, 1024)
    IN Upto(data, pos) \o Repeat(d.b, n) \o From(data, pos)

\* mutate_area, arms 7..=12 (aimed jump to self)
area_jump(data, d) ==
    LET jl == aim(data, data, 0, 0, d.x, d.y) IN
    Upto(data, jl[1]) \o From(data, jl[2])

\* mutate_area, arms 13..=21 (aimed random block fusion)
area_fusion(data, d) ==
    LET end == Len(data)
        rchk == random_block(data, d.other, d.x, d.y)
        first == aim(Upto(data, end \div 2), Upto(rchk, Len(rchk) \div 2), 0, 1, d.x, d.y)
        buff == From(rchk, Len(rchk) \div 2)
        second == aim(buff, From(data, first[1]), first[1], first[2], d.y, d.x)
    IN Upto(data, first[1]) \o Upto(buff, second[1]) \o From(data, second[2])

\* mutate_area, arms 22..=23 (insert semirandom bytes): r is followed when
\* every draw of it is the same
area_semirandom(data, d) ==
    LET n == ranged(d.n, 2, 4096) % (4096 \div 5)
        pos == ranged(d.x, 0, Len(data))
        r == ranged(d.y, 2, Len(data))
    IN Upto(data, pos) \o Repeat(At(data, r - 1), n) \o From(data, pos)

\* mutate_area, arm 24 (overwrite semirandom bytes) when prng.bool() is true:
\* b = a + 2 + rand_range(0, 32); every r drawn in the loop is the same
area_overwrite(data, d) ==
    LET end == Len(data)
        a == ranged(d.x, 0, end - 2)
        b == Min(a + 2 + ranged(d.n, 0, 32), end)
        r == ranged(d.y, 0, end)
    IN Upto(data, a) \o Repeat(At(data, r), b - a)
       \o (IF end > b THEN From(data, b) ELSE <<>>)

\* str::parse::<usize> of ASCII digits (few enough not to overflow)
RECURSIVE parse(_)
parse(digits) ==
    IF Len(digits) = 0 THEN 0
    ELSE 10 * parse(Upto(digits, Len(digits) - 1)) + (digits[Len(digits)] - 48)

\* mutate_area, arms 25..=28 (textual number mutation): rand_range(0,
\* AIMROUNDS) rounds of seek_num, each drawing the same o; to_ne_bytes on a
\* little-endian target
area_number(data, d) ==
    LET rounds == ranged(d.n, 0, 256)
        num == seek_num(data, d.x)
    IN IF rounds = 0 \/ num = <<>> THEN <<>>
       ELSE Upto(data, num[1])
            \o ToLE(twiddle(parse(Slice(data, num[1], num[2])), d.b), 8)
            \o From(data, num[2])

\* mutate_area, arms 29..=34 (delim swap): what it writes for each pair of
\* ranges drange and other_drange can give; {} when one of them is None
area_delim_swap(data) ==
    UNION { { Upto(data, d1[1]) \o Slice(data, d2[1], d2[2])
              \o (IF d2[1] > d1[2] THEN Slice(data, d1[2], d2[1]) ELSE <<>>)
              \o Slice(data, d1[1], d1[2]) \o From(data, d2[2])
              : d2 \in other_drange(data, At(data, d1[1])) }
            : d1 \in drange(data) }

\* mutate_area(data, out, prng, corpus), one pass of its loop under the draws
\* d: the set of what the pass can do
mutate_area_pass(data, d) ==
    LET end == Len(data) IN
    CASE d.r = 0 -> { Written(area_insert(data, d.x, d.b)) }
      [] d.r = 1 -> IF ranged(d.x, 0, end) + 1 >= end THEN { Continue }
                    ELSE { Written(Upto(data, ranged(d.x, 0, end))
                                   \o From(data, ranged(d.x, 0, end) + 1)) }
      [] d.r \in 2..3 -> IF end <= 1 THEN { Continue }
                         ELSE { Written(Upto(data, rand_two_by(d.x, d.y, end)[1])
                                        \o From(data, rand_two_by(d.x, d.y, end)[2])) }
      [] d.r \in 4..5 -> IF end < 2 THEN { Continue } ELSE { Written(area_repeat(data, d)) }
      [] d.r = 6 -> { Written(area_insert_data(data, d)) }
      [] d.r \in 7..12 -> IF end < 5 THEN { Continue } ELSE { Written(area_jump(data, d)) }
      [] d.r \in 13..21 -> IF end < 8 THEN { Continue } ELSE { Written(area_fusion(data, d)) }
      [] d.r \in 22..23 -> IF end < 2 THEN { Continue }
                           ELSE { Written(area_semirandom(data, d)) }
      [] d.r = 24 -> IF end < 2 THEN { Continue } ELSE { Written(area_overwrite(data, d)) }
      [] d.r \in 25..28 -> IF end < 2 THEN { Continue } ELSE { Written(area_number(data, d)) }
      [] d.r \in 29..34 -> IF area_delim_swap(data) = {} THEN { Continue }
                           ELSE { Written(w) : w \in area_delim_swap(data) }

\* mutate_area: its loop runs passes until one returns; what it leaves
\* written in out, over the draws in D
mutate_area(data, D) ==
    { p.w : p \in { q \in UNION { mutate_area_pass(data, d) : d \in D } : q.ret } }

\* ---- ni_area and ni_mutate, step by step ----
\* pops of ni_area's stack followed in one call
MaxAreaSteps == 4
\* the length of the long input: at least 256, so that ni_area splits it
BigLen == 260

\* the inputs given to ni_mutate: one byte, two letters, two digits, a
\* delimited range, nine letters, and BigLen letters
NiInputs ==
    { <<65>>, <<65, 66>>, <<49, 50>>, <<91, 65, 93>>,
      <<65, 66, 67, 68, 69, 70, 71, 72, 73>>,
      [k \in 1..BigLen |-> 65 + (k % 26)] }
\* the corpus random_block picks from
NiCorpus == { <<65>>, <<65, 66, 67, 68>> }
\* the raw values of prng.rand() followed through mutate_area: r picks the
\* arm, x and y give positions, n counts and b bytes
NiDraws ==
    [r : {0, 1, 2, 4, 6, 7, 13, 22, 24, 25, 29}, x : {0, 1}, y : {1, 2},
     n : {0, 1671169}, b : {7}, other : NiCorpus]
\* the raw values followed for `split`, and for rng_max and new_n
SplitRaws == {0, 1, 2, 258}
CountRaws == {0, 1}

\* the sub-slice data[lo..hi] ni_area holds with its share n of the mutations
Area(lo, hi, n) == [lo |-> lo, hi |-> hi, n |-> n]

\* the two pushes of ni_area, in the other order
split_push_left_first(stack, split, new_n) ==
    LET s == stack[Len(stack)] IN
    SubSeq(stack, 1, Len(stack) - 1)
        \o << Area(s.lo, s.lo + split, s.n - new_n), Area(s.lo + split, s.hi, new_n) >>
\* ni_area: stack.pop(), then stack.push((&data[split..], new_n)) and
\* stack.push((&data[..split], n - new_n))
split_push(stack, split, new_n) ==
    LET s == stack[Len(stack)] IN
    SubSeq(stack, 1, Len(stack) - 1)
        \o << Area(s.lo + split, s.hi, new_n), Area(s.lo, s.lo + split, s.n - new_n) >>

\* ni_mutate: n = 1 if prng.rand() & 3 == 1, else 2 + rand_range(0, data_sz >> 20)
ni_shares(data_sz) == { 1 } \cup { 2 + ranged(raw, 0, data_sz \div Pow2(20)) : raw \in CountRaws }

AreaFrame ==
    UNCHANGED <<engine_vars, arc_vars, load_vars, worker_vars, ni_vars,
                tc_vars, grammar_vars, prng_vars, monitor>>

\* the slice on top of the stack, the one `stack.pop()` yields
popped == area.stack[Len(area.stack)]
\* `if n == 1 || len < 256`
to_mutate_area(s) == s.n = 1 \/ s.hi - s.lo < 256

\* ni_mutate up to the first pop of ni_area (data_sz < 4096)
NiMutate ==
    /\ area.pc = "call"
    /\ area.data_sz < 4096
    /\ \E n \in ni_shares(area.data_sz) :
           area' = [area EXCEPT !.pc = "area",
                                !.stack = << Area(0, Len(area.data), n) >>]
    /\ AreaFrame

\* ni_area: a pass of `while let Some(..) = stack.pop()` that splits
AreaSplit ==
    /\ area.pc = "area" /\ area.stack # <<>>
    /\ ~to_mutate_area(popped)
    /\ Len(area.done) + Len(area.stack) < MaxAreaSteps
    /\ \E split \in { ranged(raw, 0, popped.hi - popped.lo) : raw \in SplitRaws } \ {1} :
       \E rng_max \in { ranged(raw, 0, popped.n) : raw \in CountRaws } :
       \E new_n \in { ranged(raw, 0, popped.n - rng_max) : raw \in CountRaws } :
           area' = [area EXCEPT !.stack = split_push(area.stack, split, new_n)]
    /\ AreaFrame

\* ni_area: a pass that hands the popped slice to mutate_area
AreaMutate ==
    /\ area.pc = "area" /\ area.stack # <<>>
    /\ to_mutate_area(popped)
    /\ \E w \in mutate_area(Slice(area.data, popped.lo, popped.hi), NiDraws) :
           area' = [area EXCEPT !.stack = SubSeq(@, 1, Len(@) - 1),
                                !.done = Append(@, [lo |-> popped.lo, hi |-> popped.hi]),
                                !.out = @ \o w]
    /\ AreaFrame

\* ni_area returns on the empty stack, and ni_mutate with Ok(res)
NiReturn ==
    /\ area.pc = "area" /\ area.stack = <<>>
    /\ area' = [area EXCEPT !.pc = "returned"]
    /\ AreaFrame

InitNi ==
    /\ corpus = <<>> /\ cfg = "none" /\ EngineIdle
    /\ ArcIdle /\ LoadIdle /\ WorkerIdle /\ NiIdle /\ TcIdle /\ GrammarIdle /\ PrngIdle
    /\ monitor = "none"
    /\ area \in { [pc |-> "call", data |-> data, data_sz |-> Len(data),
                   stack |-> <<>>, done |-> <<>>, out |-> <<>>] : data \in NiInputs }

NextNi ==
    \/ NiMutate
    \/ AreaSplit
    \/ AreaMutate
    \/ NiReturn

SpecNi == InitNi /\ [][NextNi]_vars

\* C22: for every non-empty input and every PRNG outcome ni_mutate returns an
\* output that is non-empty and not byte-equal to the input.
C22_NiOutputDiffers ==
    (area.pc = "returned" /\ area.data # <<>>)
        => /\ area.out # <<>>
           /\ area.out # area.data

\* the slices mutate_area has been given, in the order it got them, followed
\* by the slices on the stack, the top one first
Pending == [k \in 1..Len(area.stack) |->
              [lo |-> area.stack[Len(area.stack) + 1 - k].lo,
               hi |-> area.stack[Len(area.stack) + 1 - k].hi]]
Handed == area.done \o Pending

\* the slices of s lie end to end from offset 0 to offset len
Contiguous(s, len) ==
    /\ Len(s) > 0 => s[1].lo = 0 /\ s[Len(s)].hi = len
    /\ \A k \in 1..Len(s) : s[k].lo <= s[k].hi
    /\ \A k \in 1..(Len(s) - 1) : s[k].hi = s[k + 1].lo

\* the bytes of the slices of s, one after the other
RECURSIVE Bytes(_, _)
Bytes(data, s) ==
    IF Len(s) = 0 THEN <<>>
    ELSE Slice(data, s[1].lo, s[1].hi) \o Bytes(data, Tail(s))

\* C29: the sequential ni_area hands mutate_area contiguous, non-overlapping
\* slices in left-to-right order that cover the input exactly once: at every
\* step the slices already mutated followed by the slices on the stack, top
\* first, concatenate to the original data.
C29_AreaSlicesCoverInput ==
    area.pc \in {"area", "returned"}
        => /\ Contiguous(Handed, Len(area.data))
           /\ Bytes(area.data, Handed) = area.data

\* ni_area has split the long input twice: one slice has gone to mutate_area
\* and two more wait on the stack, the top one a proper part of the input
C29_Witness ==
    /\ area.pc = "area"
    /\ Len(area.data) = BigLen
    /\ Len(area.done) = 1 /\ Len(area.stack) = 2
    /\ popped.lo > 0 /\ popped.hi - popped.lo > 0 /\ popped.hi < BigLen

(***************************************************************************)
(* The mutators that change the size of the test case, under other values  *)
(* of max_mutation_factor than the default.                                *)
(***************************************************************************)
\* the values set_max_mutation_size(num_factor) installs: 1..99
Factors == {1, 5, 21, 99}
\* the length of the long corpus entry; erase_bytes and insert_bytes divide a
\* size of 20 and more by max_mutation_factor
LongLen == 20
SizeMutators == {"EraseBytes", "InsertBytes", "Truncate", "Append"}
SizeCorpora ==
    { << <<65>>, <<1, 2, 3>> >>,
      << <<7, 8>>, <<1, 2, 3>> >>,
      << [k \in 1..LongLen |-> k] >> }

InitSize ==
    /\ corpus \in SizeCorpora
    /\ cfg \in { [printable |-> FALSE, max_mutation_factor |-> f, mutation_passes |-> n,
                  overflow_checks |-> TRUE, mutators |-> SizeMutators,
                  user_token_dict |-> <<>>, grammar |-> FALSE]
                 : f \in Factors, n \in 1..MaxPasses }
    \* the long entry is followed for one pass, and not with the factor 1, which
    \* makes erase_bytes remove every one of its bytes
    /\ \A i \in 1..Len(corpus) :
           Len(corpus[i]) >= LongLen => cfg.max_mutation_factor > 1 /\ cfg.mutation_passes = 1
    /\ EngineIdle
    /\ ArcIdle /\ LoadIdle /\ WorkerIdle /\ NiIdle /\ LibIdle

NextSize ==
    \/ MutateBegin
    \/ PassEraseBytes
    \/ PassInsertBytes
    \/ PassTruncate
    \/ PassAppend
    \/ MutateReturn

SpecSize == InitSize /\ [][NextSize]_vars

\* the step is a pass of mutate() in which mutator m returned Ok on a
\* non-empty test case
OkPass(m) ==
    /\ pc = "mutating" /\ passes_done' = passes_done + 1
    /\ last'.mutator = m /\ last'.res = "Ok"
    /\ test_case.size > 0

SizeChanged ==
    /\ (OkPass("EraseBytes") \/ OkPass("Truncate")) => test_case'.size < test_case.size
    /\ (OkPass("InsertBytes") \/ OkPass("Append")) => test_case'.size > test_case.size

\* C23: whenever EraseBytes, InsertBytes, Truncate or Append returns success
\* on a non-empty test case, test_case.size is strictly smaller (EraseBytes,
\* Truncate) or strictly larger (InsertBytes, Append) than before the call,
\* for every max_mutation_factor in 1..99.
C23_SizeChanges == [][SizeChanged]_vars

\* every entry of the corpus has two bytes or more
EntriesAtLeastTwo == \A i \in 1..Len(corpus) : Len(corpus[i]) >= 2

\* C24: for every mutation_passes >= 1 and every corpus whose entries have
\* length >= 2, mutate() never panics: no sequence of passes leaves the
\* test case empty, or shorter than mutation_passes, for a later pass of
\* the same call to abort on.
C24_MutateNeverPanics ==
    (cfg.mutation_passes >= 1 /\ EntriesAtLeastTwo) => pc # "panicked"

(***************************************************************************)
(* Termination of optimize().                                              *)
(***************************************************************************)
\* the body of optimize(): sequential code, a loop that can take a step
\* takes it
OptimizeLoop ==
    \/ OptimizeNonTerminal
    \/ OptimizeOrderedExpansion
    \/ OptimizeLeaf
    \/ OptimizeWhile
    \/ OptimizeReturn

SpecOptimize == InitGrammar /\ [][NextGrammar]_vars /\ WF_vars(OptimizeLoop)

\* the token table is one Grammar::new built from a JSON grammar
BuiltByNew == \E sjg \in JsonGrammars : grammar.built = GrammarNew(sjg).tokens

\* C25: optimize reaches its fixed point after finitely many passes over
\* the token table for every grammar Grammar::new can build, grammars with
\* cyclic unit productions included: the call Grammar::new makes leaves
\* its loop.
C25_OptimizeTerminates == BuiltByNew => <>(optimizer.pc # "for")

(***************************************************************************)
(* get_mutation_engine: the corpus a worker's engine selects from is the   *)
(* loaded corpus followed by 128 synthetic entries.                        *)
(***************************************************************************)
\* the iterations of `for _ in 0..128` the model follows
MaxSynthetic == 2
\* the corpora load_corpus_from_disk returns: no entry is empty
LoadedCorpora == { <<>>, << <<65, 66>> >> }
\* `me.prng.rand_range(0, 98304)`: the sizes followed
SyntheticSizes == { tc_sz \in rand_range(0, 98304) : tc_sz <= 2 }
\* Rng::rand_byte_vec(size): vec![0; size] filled with rand_byte()
rand_byte_vec(size) == [1..size -> {0, 254}]

\* get_mutation_engine, one iteration of `for _ in 0..128`
SyntheticEntry ==
    /\ pc = "idle"
    /\ Len(added) < MaxSynthetic
    /\ \E tc_sz \in SyntheticSizes :
         \E tc \in rand_byte_vec(tc_sz) :
            /\ corpus' = Append(corpus, tc)
            /\ added' = Append(added, tc)
    /\ UNCHANGED <<cfg, test_case, pc, passes_done, last, installed>>
    /\ UNCHANGED <<arcs, me_corpus, holders, base>>
    /\ UNCHANGED <<load_vars, worker_vars, ni_vars, lib_vars>>

\* worker: me.mutate() on the engine get_mutation_engine returned
SeededMutateBegin ==
    /\ Len(added) = MaxSynthetic
    /\ MutateBegin

InitSeed ==
    /\ corpus \in LoadedCorpora
    /\ cfg \in { f \in Configs : /\ f.mutation_passes = 1 /\ ~f.printable
                                 /\ f.mutators = DefaultMutators /\ f.overflow_checks }
    /\ EngineIdle
    /\ ArcIdle /\ LoadIdle /\ WorkerIdle /\ NiIdle /\ LibIdle

NextSeed ==
    \/ SyntheticEntry
    \/ SeededMutateBegin
    \/ PassShuffleBytes \/ PassEraseBytes \/ PassInsertBytes \/ PassSwapNeighbors \/ PassSwapEndianness
    \/ PassChangeBit \/ PassChangeByte \/ PassNegateByte \/ PassArithmeticWidth \/ PassCopyPart
    \/ PassChangeASCIIInteger \/ PassChangeBinaryInteger \/ PassCrossOver \/ PassSplice
    \/ PassTruncate \/ PassAppend \/ PassAddFromMagic \/ PassAddWordFromTORC
    \/ MutateReturn

SpecSeed == InitSeed /\ [][NextSeed]_vars

\* C26: every entry of the corpus a worker's mutation engine selects from
\* is non-empty, the loaded entries and each synthetic entry appended by
\* get_mutation_engine, so mutate() never starts from an empty test case.
C26_SeededCorpusNonEmpty ==
    /\ \A i \in 1..Len(corpus) : Len(corpus[i]) >= 1
    /\ (pc = "mutating" /\ passes_done = 0) => test_case.size >= 1

(***************************************************************************)
(* Crash files are written once.                                           *)
(***************************************************************************)
\* worker t's fs::write of a crash file succeeds in this step
WritesCrash(t) ==
    /\ wk[t].pc = "write"
    /\ wk'[t].pc \in {"mutate", "batch"}

FreshCrashName ==
    \A t \in Workers :
        WritesCrash(t)
            => /\ crash_file(t, wk[t].status.code, wk[t].ordinal) \notin DOMAIN crash_dir
               /\ \A f \in DOMAIN crash_dir : crash_dir'[f] = crash_dir[f]

\* C27: no recorded crash input is overwritten: under every interleaving of
\* the workers' inc_crashes and get_crashes calls, each crash event writes
\* to a file name that differs from every name written earlier by the same
\* or any other worker.
C27_CrashFilesNotOverwritten == [][FreshCrashName]_vars

\* C27 witness: both workers incremented the counter before either read
\* it, so both wrote files with the same code and the same ordinal
C27_Witness ==
    /\ wk[0].wrote # <<>> /\ wk[1].wrote # <<>>
    /\ wk[0].ordinal = wk[1].ordinal
    /\ wk[0].status = wk[1].status
    /\ wk[0].wrote \in DOMAIN crash_dir /\ wk[1].wrote \in DOMAIN crash_dir

(***************************************************************************)
(* Children of the expansions optimize() leaves.                           *)
(***************************************************************************)
\* token i (1-based position) is an OrderedExpansion with a child that is Nop
HasNopChild(i) ==
    /\ grammar.tokens[i].kind = "OrderedExpansion"
    /\ \E k \in 1..Len(grammar.tokens[i].ids) :
           /\ Exists(grammar.tokens[i].ids[k])
           /\ At(grammar.tokens, grammar.tokens[i].ids[k]).kind = "Nop"

\* C28: after optimize(), no OrderedExpansion token has a child identifier
\* that refers to a Nop token: every child pointing to a Nop token has been
\* dropped from its expansion.
C28_NoNopChildren ==
    optimizer.pc = "returned" => \A i \in 1..Len(grammar.tokens) : ~HasNopChild(i)

(***************************************************************************)
(* The state Xorshift64 is seeded with.                                    *)
(***************************************************************************)
\* C30: for every user seed, the state that Xorshift64::new and
\* Xorshift64::set_seed install is non-zero, so the generator never gets
\* stuck returning the constant value 0.
C30_XorshiftStateNonZero ==
    \A i \in 1..2 :
        (gens[i].g.kind = "Xorshift64" /\ gens[i].stream = <<>>)
            => gens[i].g.state[1] # U64(0)

====
